---- MODULE Spec2Model ----
(***************************************************************************)
(* A model of lib/VM/JSLib/HermesBuiltin.cpp: the native built-in          *)
(* operations the Hermes compiler emits calls to.  Each native function is *)
(* one action computing the whole handler; the object-model primitives it  *)
(* calls (JSObject, JSArray, the iterator helpers) are operators that      *)
(* return a result together with the changed heap.  Every fallible         *)
(* primitive call is numbered in call order; the input `f' of an operation *)
(* names the call that fails (0: none fails) and `how' says whether the    *)
(* failing call raises (returns ExecutionStatus::EXCEPTION) or refuses     *)
(* (a CallResult<bool> holding false).                                     *)
(***************************************************************************)
EXTENDS Integers, Sequences, FiniteSets, TLC

VARIABLES
    heap,      \* the objects allocated so far; an object reference is an index
    cache,     \* RuntimeModule's template-object cache: module -> id -> object (0: none)
    thrown,    \* Runtime's thrown value ("none" when cleared)
    aborted,   \* TRUE once an assert() has terminated the process
    call,      \* the native call made last: its name and its inputs
    ret,       \* what that call returned
    log,       \* the primitive calls that call made, in order
    returned,  \* history: module -> id -> the objects getTemplateObject has returned
    sp,        \* the activation of hermesBuiltinArraySpread in progress
    frames,    \* the argument lists of the stack frames below the native call's own
    callees,   \* the callee closures of those frames, the caller's first (0: none)
    delegated, \* the isDelegated flag of each GeneratorInnerFunction on the heap
    builtins   \* the runtime's table of built-ins: index -> native function

vars == <<heap, cache, thrown, aborted, call, ret, log, returned, sp, frames,
          callees, delegated, builtins>>

-----------------------------------------------------------------------------
(* Bounds of the model. *)

MaxObjs == 4       \* objects getTemplateObject may leave on the heap
MaxModule == 1     \* runtime modules are 1..MaxModule

-----------------------------------------------------------------------------
(* HermesValue: a tagged value.  Every value has the same three fields so   *)
(* that any two values can be compared.                                     *)

Undefined == [t |-> "undefined", n |-> 0, s |-> ""]
Null == [t |-> "null", n |-> 0, s |-> ""]
Bool(b) == [t |-> "bool", n |-> IF b THEN 1 ELSE 0, s |-> ""]
Num(i) == [t |-> "number", n |-> i, s |-> ""]
Str(x) == [t |-> "string", n |-> 0, s |-> x]
Obj(o) == [t |-> "object", n |-> o, s |-> ""]

\* ExecutionStatus::EXCEPTION as the result of a native call.
EXCEPTION == [t |-> "EXCEPTION", n |-> 0, s |-> ""]
\* No native call has returned (none made yet, or the process was aborted).
NoReturn == [t |-> "noreturn", n |-> 0, s |-> ""]

isNumber(v) == v.t = "number"
isBool(v) == v.t = "bool"
isObject(v) == v.t = "object"
isNull(v) == v.t = "null"
isUndefined(v) == v.t = "undefined"

\* NativeArgs::getArg: an index past the argument count reads undefined.
getArg(args, i) == IF i < Len(args) THEN args[i + 1] ELSE Undefined

-----------------------------------------------------------------------------
(* Property keys, descriptors and objects. *)

Idx(i) == [i |-> i, n |-> ""]
Name(x) == [i |-> -1, n |-> x]
isIdx(k) == k.i >= 0

\* DefinePropertyFlags: which fields a definition sets, and to what.
DPF(sw, w, se, e, sc, c, sv) ==
    [sw |-> sw, w |-> w, se |-> se, e |-> e, sc |-> sc, c |-> c, sv |-> sv]

\* A stored property.  acc: "data", or an accessor whose getter returns v
\* ("getter") or raises ("throws").  internal: an InternalProperty name.
Prop(v, w, e, c) ==
    [v |-> v, w |-> w, e |-> e, c |-> c, acc |-> "data", internal |-> FALSE]

EmptyIdx == [i \in {} |-> Prop(Undefined, FALSE, FALSE, FALSE)]

\* An object: its class, [[Extensible]], the indexed properties (a function
\* on the indices present), the named properties in definition order, for
\* arrays the length with its writable flag, and the parent (0: none).
NewObject(cls) ==
    [cls |-> cls, ext |-> TRUE, idx |-> EmptyIdx, named |-> <<>>,
     len |-> 0, lenW |-> TRUE, parent |-> 0]

NamedKeys(o) == {o.named[j].k : j \in DOMAIN o.named}
NamedPos(o, x) == CHOOSE j \in DOMAIN o.named : o.named[j].k = x
NamedProp(o, x) == o.named[NamedPos(o, x)].p

\* The length of an array seen as a property: never enumerable or configurable.
LengthProp(o) == Prop(Num(o.len), o.lenW, FALSE, FALSE)

isArrayLength(o, k) == o.cls = "Array" /\ k = Name("length")

HasOwn(o, k) ==
    \/ isIdx(k) /\ k.i \in DOMAIN o.idx
    \/ ~isIdx(k) /\ k.n \in NamedKeys(o)
    \/ isArrayLength(o, k)

GetOwn(o, k) ==
    IF isArrayLength(o, k) THEN LengthProp(o)
    ELSE IF isIdx(k) THEN o.idx[k.i]
    ELSE NamedProp(o, k.n)

\* Store property p under key k (a new named key goes last).
StoreOwn(o, k, p) ==
    IF isArrayLength(o, k) THEN [o EXCEPT !.lenW = p.w]
    ELSE IF isIdx(k) THEN
        [o EXCEPT !.idx = (k.i :> p) @@ o.idx,
                  !.len = IF o.cls = "Array" /\ k.i >= o.len THEN k.i + 1 ELSE o.len]
    ELSE IF k.n \in NamedKeys(o) THEN
        [o EXCEPT !.named[NamedPos(o, k.n)].p = p]
    ELSE [o EXCEPT !.named = Append(o.named, [k |-> k.n, p |-> p])]

\* ValidateAndApplyPropertyDescriptor: may the definition (dpf, v) be applied
\* to an object that holds the key with property cur?
DefineAllowed(cur, dpf, v) ==
    \/ cur.c
    \/ /\ ~(dpf.sc /\ dpf.c)
       /\ ~(dpf.se /\ dpf.e # cur.e)
       /\ cur.acc = "data"
       /\ \/ cur.w
          \/ ~(dpf.sw /\ dpf.w) /\ ~(dpf.sv /\ v # cur.v)

\* May a new key be added?  Not to a non-extensible object, and not past the
\* end of an array whose length is read-only.
AddAllowed(o, k) ==
    /\ o.ext
    /\ ~(o.cls = "Array" /\ isIdx(k) /\ k.i >= o.len /\ ~o.lenW)

DefinedProp(o, k, dpf, v) ==
    IF HasOwn(o, k) THEN
        LET cur == GetOwn(o, k) IN
        [v |-> IF dpf.sv THEN v ELSE cur.v,
         w |-> IF dpf.sw THEN dpf.w ELSE cur.w,
         e |-> IF dpf.se THEN dpf.e ELSE cur.e,
         c |-> IF dpf.sc THEN dpf.c ELSE cur.c,
         acc |-> "data", internal |-> cur.internal]
    ELSE Prop(IF dpf.sv THEN v ELSE Undefined,
              dpf.sw /\ dpf.w, dpf.se /\ dpf.e, dpf.sc /\ dpf.c)

\* [[DefineOwnProperty]] on object o: TRUE when it is applied.
CanDefine(o, k, dpf, v) ==
    IF HasOwn(o, k) THEN DefineAllowed(GetOwn(o, k), dpf, v) ELSE AddAllowed(o, k)

-----------------------------------------------------------------------------
(* The running native call: the heap, the thrown value, the log of          *)
(* primitive calls, the count k of fallible primitive calls made so far,    *)
(* and the result of the primitive call made last: r, with the object o or  *)
(* the value v it yielded.                                                  *)

Ev(e, o, k, v, r) == [e |-> e, o |-> o, k |-> k, v |-> v, r |-> r]

Start(h) ==
    [heap |-> h, thrown |-> "none", log |-> <<>>, k |-> 0, r |-> "", o |-> 0,
     v |-> Undefined]

\* Does the next fallible primitive call fail?
Fails(st, f) == st.k + 1 = f

\* JSArray::create(runtime, capacity, length): o is the new array, r = "exc"
\* when the creation raised.
JSArray_create(st, f, length) ==
    IF Fails(st, f) THEN
        [st EXCEPT !.k = @ + 1, !.r = "exc", !.o = 0, !.thrown = "Error",
                   !.log = Append(@, Ev("create", 0, Name(""), Undefined, "exc"))]
    ELSE
        [st EXCEPT !.k = @ + 1, !.r = "true", !.o = Len(st.heap) + 1,
                   !.heap = Append(@, [NewObject("Array") EXCEPT !.len = length]),
                   !.log = Append(@, Ev("create", Len(st.heap) + 1, Name(""),
                                        Undefined, "true"))]

\* JSObject::defineOwnProperty / defineOwnComputedPrimitive /
\* defineNewOwnProperty on heap object o.  r is "true", "false" (refused) or
\* "exc" (raised).  throwOnError: a refusal raises a TypeError instead.
JSObject_defineOwnProperty(st, f, how, o, k, dpf, v, throwOnError) ==
    LET ok == CanDefine(st.heap[o], k, dpf, v)
        res == IF Fails(st, f) THEN how
               ELSE IF ok THEN "true"
               ELSE IF throwOnError THEN "exc" ELSE "false"
    IN  [st EXCEPT !.k = @ + 1, !.r = res,
                   !.thrown = IF res = "exc" THEN (IF Fails(st, f) THEN "Error" ELSE "TypeError")
                              ELSE @,
                   !.heap = IF res = "true"
                            THEN [@ EXCEPT ![o] = StoreOwn(@, k, DefinedProp(@, k, dpf, v))]
                            ELSE @,
                   !.log = Append(@, Ev("define", o, k, v, res))]

\* JSObject::preventExtensions.
JSObject_preventExtensions(st, o) ==
    [st EXCEPT !.heap = [@ EXCEPT ![o].ext = FALSE],
               !.log = Append(@, Ev("preventExtensions", o, Name(""), Undefined, "true"))]

\* Runtime::raiseTypeError: installs the error and yields EXCEPTION.
raiseTypeError(st) == [st EXCEPT !.thrown = "TypeError", !.r = "exc"]

-----------------------------------------------------------------------------
(* hermesBuiltinGetTemplateObject *)

Modules == 1..MaxModule
\* The call-site ids of the template literals of a module.
Ids == 0..1

\* A slip: elements left writable.
dpf_writable == DPF(TRUE, TRUE, TRUE, TRUE, TRUE, FALSE, TRUE)

\* Element flags of the template object and of the raw object.
dpf == DPF(TRUE, FALSE, TRUE, TRUE, TRUE, FALSE, TRUE)

\* Flags that make 'length' read-only.
readOnlyDPF == DPF(TRUE, FALSE, FALSE, FALSE, TRUE, FALSE, FALSE)

\* Flags of the property 'raw' (a PropertyFlags: every flag is given).
constantPF == DPF(TRUE, FALSE, TRUE, FALSE, TRUE, FALSE, TRUE)

\* A slip: the lookup never finds an entry.
cachedTemplateObj_forget(c, runtimeModule, templateObjID) == 0

\* RuntimeModule::findCachedTemplateObject as the handler uses it: the cached
\* object of (runtimeModule, templateObjID), 0 when there is none.
cachedTemplateObj(c, runtimeModule, templateObjID) == c[runtimeModule][templateObjID]

\* A slip: the object is stored under every id of the module.
cacheTemplateObject_allIds(c, runtimeModule, templateObjID, templateObj) ==
    [c EXCEPT ![runtimeModule] = [i \in DOMAIN c[runtimeModule] |-> templateObj]]

\* RuntimeModule::cacheTemplateObject as the handler uses it.
cacheTemplateObject(c, runtimeModule, templateObjID, templateObj) ==
    [c EXCEPT ![runtimeModule][templateObjID] = templateObj]

\* The number of strings of the template.
count(args) ==
    IF getArg(args, 1) = Bool(TRUE) THEN Len(args) - 2 ELSE (Len(args) \div 2) - 1

\* The index of the first cooked string among the arguments.
cookedBegin(args) == IF getArg(args, 1) = Bool(TRUE) THEN 2 ELSE 2 + count(args)

\* What a native call leaves behind.
Outcome(st, c, r, ab) ==
    [heap |-> st.heap, cache |-> c, thrown |-> st.thrown, log |-> st.log,
     ret |-> r, aborted |-> ab, k |-> st.k]

\* The GCScope of the handler ends: the objects allocated since heap h0 that
\* the handler did not publish are unreachable, and are collected.
releaseScope(st, h0) == [st EXCEPT !.heap = h0]

\* The loop that defines the cooked and the raw strings.  Each definition is
\* followed by an assert(): with assertions compiled in (~x.ndebug) a failed
\* definition ends the process (r = "abort"); an NDEBUG build goes on.
RECURSIVE templateLoop(_, _, _)
templateLoop(st, i, x) ==
    IF i >= count(x.args) THEN [st EXCEPT !.r = "true"]
    ELSE
        LET s1 == JSObject_defineOwnProperty(st, x.f, x.how, x.templateObj, Idx(i),
                      dpf, getArg(x.args, cookedBegin(x.args) + i), FALSE)
        IN  IF s1.r # "true" /\ ~x.ndebug THEN [s1 EXCEPT !.r = "abort"]
            ELSE
                LET s2 == JSObject_defineOwnProperty(s1, x.f, x.how, x.rawObj, Idx(i),
                              dpf, getArg(x.args, 2 + i), FALSE)
                IN  IF s2.r # "true" /\ ~x.ndebug THEN [s2 EXCEPT !.r = "abort"]
                    ELSE templateLoop(s2, i + 1, x)

\* Steps 5-8: freeze the raw object, attach it, freeze the template object,
\* cache it and return it.  h0 is the heap the handler started with.
templateFinish(st, h0, c, runtimeModule, templateObjID, x) ==
    LET s1 == JSObject_defineOwnProperty(st, x.f, x.how, x.rawObj, Name("length"),
                  readOnlyDPF, Undefined, TRUE)
    IN
    IF s1.r = "exc" THEN Outcome(releaseScope(s1, h0), c, EXCEPTION, FALSE)
    ELSE IF s1.r = "false" THEN
        Outcome(releaseScope(raiseTypeError(s1), h0), c, EXCEPTION, FALSE)
    ELSE
    LET s2 == JSObject_preventExtensions(s1, x.rawObj)
        s3 == JSObject_defineOwnProperty(s2, x.f, "exc", x.templateObj, Name("raw"),
                  constantPF, Obj(x.rawObj), FALSE)
    IN
    IF s3.r = "exc" THEN Outcome(releaseScope(s3, h0), c, EXCEPTION, FALSE)
    ELSE
    LET s4 == JSObject_defineOwnProperty(s3, x.f, x.how, x.templateObj, Name("length"),
                  readOnlyDPF, Undefined, TRUE)
    IN
    IF s4.r = "exc" THEN Outcome(releaseScope(s4, h0), c, EXCEPTION, FALSE)
    ELSE IF s4.r = "false" THEN
        Outcome(releaseScope(raiseTypeError(s4), h0), c, EXCEPTION, FALSE)
    ELSE
    LET s5 == JSObject_preventExtensions(s4, x.templateObj)
        s6 == [s5 EXCEPT !.log = Append(@, Ev("cache", x.templateObj,
                                              Idx(templateObjID), Undefined, "true"))]
    IN  Outcome(s6, cacheTemplateObject(c, runtimeModule, templateObjID, x.templateObj),
                Obj(x.templateObj), FALSE)

\* A slip: the cache of the first module is used, whoever calls.
getRuntimeModule_first(savedCB) == 1

\* savedCB->getRuntimeModule(): the module of the calling code block.
getRuntimeModule(savedCB) == savedCB

\* A slip: the count of strings is never checked.
unevenStrings_never(args) == FALSE

\* !dup && args.getArgCount() % 2 == 1: the raw and the cooked strings
\* cannot be as many.
unevenStrings(args) == getArg(args, 1) = Bool(FALSE) /\ Len(args) % 2 = 1

\* The handler.  savedCB: the runtime module of the calling code block, 0
\* when the caller is native code.
hermesBuiltinGetTemplateObject(h, c, savedCB, args, f, how, ndebug) ==
    LET st == Start(h) IN
    IF Len(args) < 3 THEN Outcome(raiseTypeError(st), c, EXCEPTION, FALSE)
    ELSE IF ~isNumber(getArg(args, 0)) THEN Outcome(raiseTypeError(st), c, EXCEPTION, FALSE)
    ELSE IF ~isBool(getArg(args, 1)) THEN Outcome(raiseTypeError(st), c, EXCEPTION, FALSE)
    ELSE IF savedCB = 0 THEN Outcome(raiseTypeError(st), c, EXCEPTION, FALSE)
    ELSE
    LET templateObjID == getArg(args, 0).n
        runtimeModule == getRuntimeModule(savedCB)
        found == cachedTemplateObj(c, runtimeModule, templateObjID)
        s0 == [st EXCEPT !.log = Append(@, Ev("find", found, Idx(templateObjID),
                                              Undefined, "true"))]
    IN
    IF found # 0 THEN Outcome(s0, c, Obj(found), FALSE)
    ELSE IF unevenStrings(args) THEN
        Outcome(raiseTypeError(s0), c, EXCEPTION, FALSE)
    ELSE
    LET s1 == JSArray_create(s0, f, 0) IN
    IF s1.r = "exc" THEN Outcome(releaseScope(s1, h), c, EXCEPTION, FALSE)
    ELSE
    LET s2 == JSArray_create(s1, f, 0) IN
    IF s2.r = "exc" THEN Outcome(releaseScope(s2, h), c, EXCEPTION, FALSE)
    ELSE
    LET x == [args |-> args, f |-> f, how |-> how, ndebug |-> ndebug,
              rawObj |-> s1.o, templateObj |-> s2.o]
        s3 == templateLoop(s2, 0, x)
    IN
    IF s3.r = "abort" THEN Outcome(s3, c, NoReturn, TRUE)
    ELSE templateFinish(s3, h, c, runtimeModule, templateObjID, x)

-----------------------------------------------------------------------------
(* The inputs of getTemplateObject, and the calls made by running code. *)

Names == <<"a", "b", "c", "d", "e", "f">>

\* The strings passed after the two fixed arguments: n distinct strings.
Strings(n) == [j \in 1..n |-> Str(Names[j])]

\* How many strings a call passes after the two fixed arguments.
TailLens == 0..2

NoCall == [op |-> "none", module |-> 0, args |-> <<>>]

\* No activation of arraySpread: the fields of one, at rest.
NoSpread ==
    [pc |-> "idle", target |-> 0, source |-> 0, pos |-> 0, nextIndex |-> 0,
     next |-> Undefined, nextValue |-> Undefined]

EmptyCache == [m \in Modules |-> [i \in Ids |-> 0]]

InitTemplate ==
    /\ heap = <<>>
    /\ cache = EmptyCache
    /\ thrown = "none"
    /\ aborted = FALSE
    /\ call = NoCall
    /\ ret = NoReturn
    /\ log = <<>>
    /\ returned = [m \in Modules |-> [i \in Ids |-> {}]]
    /\ sp = NoSpread
    /\ frames = <<>>
    /\ callees = <<>>
    /\ delegated = <<>>
    /\ builtins = <<>>

\* The argument lists of a call: the well-formed ones, and one malformed in
\* each way the handler checks for.
TemplateArgs ==
    {<<Num(i), Bool(d)>> \o Strings(n) : i \in Ids, d \in BOOLEAN, n \in TailLens}
    \cup {<<Undefined, Bool(TRUE), Str("a")>>, <<Num(0), Undefined, Str("a")>>}

\* The run of the handler in which no primitive call fails.
TemplateRun(h, c, savedCB, args) ==
    hermesBuiltinGetTemplateObject(h, c, savedCB, args, 0, "exc", TRUE)

\* Every way one run of the handler can go, over the primitive call that
\* fails, how it fails, and the build.  A run makes at most as many fallible
\* primitive calls as the run in which none fails.
TemplateOutcomes(h, c, savedCB, args) ==
    LET run == TemplateRun(h, c, savedCB, args)
    IN  {run} \cup
        {hermesBuiltinGetTemplateObject(h, c, savedCB, args, f, how, ndebug) :
            f \in 1..run.k, how \in {"exc", "false"}, ndebug \in BOOLEAN}

\* Compiled code (or native code, savedCB = 0) calls getTemplateObject.  The
\* call is made only while the heap has room for the objects it may allocate.
GetTemplateObject ==
    /\ ~aborted
    /\ \E savedCB \in 0..MaxModule, args \in TemplateArgs :
        /\ Len(TemplateRun(heap, cache, savedCB, args).heap) <= MaxObjs
        /\ \E out \in TemplateOutcomes(heap, cache, savedCB, args) :
            /\ heap' = out.heap
            /\ cache' = out.cache
            /\ thrown' = out.thrown
            /\ aborted' = out.aborted
            /\ ret' = out.ret
            /\ log' = out.log
            /\ call' = [op |-> "getTemplateObject", module |-> savedCB, args |-> args]
            /\ returned' = IF isObject(out.ret)
                           THEN [returned EXCEPT ![savedCB][args[1].n] = @ \cup {out.ret.n}]
                           ELSE returned
            /\ UNCHANGED <<sp, frames, callees, delegated, builtins>>

\* What script can try on an object it holds: define a property with the
\* default flags, assign to it, delete it, or make its length writable again.
ScriptKeys == {Idx(0), Idx(1), Name("raw"), Name("length"), Name("x")}

DefaultNewPropertyFlags == DPF(TRUE, TRUE, TRUE, TRUE, TRUE, TRUE, TRUE)

\* [[Set]] of an own data property, or of a new one.
CanSet(o, k) ==
    IF HasOwn(o, k) THEN GetOwn(o, k).w /\ GetOwn(o, k).acc = "data" ELSE AddAllowed(o, k)

SetProp(o, k, v) ==
    IF HasOwn(o, k) THEN StoreOwn(o, k, [GetOwn(o, k) EXCEPT !.v = v])
    ELSE StoreOwn(o, k, Prop(v, TRUE, TRUE, TRUE))

\* [[Delete]].
CanDelete(o, k) == HasOwn(o, k) /\ GetOwn(o, k).c

DeleteProp(o, k) ==
    IF isIdx(k) THEN [o EXCEPT !.idx = [j \in DOMAIN o.idx \ {k.i} |-> o.idx[j]]]
    ELSE [o EXCEPT !.named = SelectSeq(o.named, LAMBDA e : e.k # k.n)]

ScriptAttempt(o, kind, k, v) ==
    CASE kind = "define" ->
            IF CanDefine(o, k, DefaultNewPropertyFlags, v)
            THEN StoreOwn(o, k, DefinedProp(o, k, DefaultNewPropertyFlags, v)) ELSE o
      [] kind = "set" -> IF CanSet(o, k) THEN SetProp(o, k, v) ELSE o
      [] kind = "delete" -> IF CanDelete(o, k) THEN DeleteProp(o, k) ELSE o

\* Script holding a template object (or its raw array) tries to change it.
ScriptMutate ==
    /\ ~aborted
    /\ \E o \in {x \in DOMAIN heap :
                    \E m \in Modules, i \in Ids :
                        x \in returned[m][i] \/ (cache[m][i] # 0 /\ x = cache[m][i])
                        \/ \E t \in returned[m][i] :
                              /\ "raw" \in NamedKeys(heap[t])
                              /\ NamedProp(heap[t], "raw").v = Obj(x)},
          kind \in {"define", "set", "delete"}, k \in ScriptKeys :
        /\ heap' = [heap EXCEPT ![o] = ScriptAttempt(@, kind, k, Str("z"))]
        /\ call' = [op |-> "script", module |-> 0, args |-> <<Obj(o)>>]
        /\ ret' = Bool(heap'[o] # heap[o])
        /\ log' = <<>>
        /\ thrown' = "none"
        /\ UNCHANGED <<cache, aborted, returned, sp, frames, callees, delegated, builtins>>

NextTemplate == GetTemplateObject \/ ScriptMutate

SpecTemplate == InitTemplate /\ [][NextTemplate]_vars

-----------------------------------------------------------------------------
(* hermesBuiltinCopyDataProperties *)

MaxNamed == 2      \* named properties of a source object
MaxIndexed == 2    \* indexed properties of a source object

RECURSIVE Ascending(_)
Ascending(S) ==
    IF S = {} THEN <<>>
    ELSE LET m == CHOOSE x \in S : \A y \in S : x <= y
         IN  <<m>> \o Ascending(S \ {m})

\* JSObject::forEachOwnPropertyWhile: the own keys in the order they are
\* visited, indexed keys ascending and then named keys in definition order.
OwnKeys(o) ==
    LET ix == Ascending(DOMAIN o.idx)
    IN  [j \in 1..Len(ix) |-> Idx(ix[j])] \o [j \in 1..Len(o.named) |-> Name(o.named[j].k)]

\* JSObject::getOwnComputedPrimitiveDescriptor: r = "true" when o has k.
JSObject_getOwnDescriptor(st, f, o, k) ==
    LET res == IF Fails(st, f) THEN "exc"
               ELSE IF HasOwn(st.heap[o], k) THEN "true" ELSE "false"
    IN  [st EXCEPT !.k = @ + 1, !.r = res,
                   !.thrown = IF res = "exc" THEN "Error" ELSE @,
                   !.log = Append(@, Ev("descriptor", o, k, Undefined, res))]

\* JSObject::getOwnIndexed: reads the slot, runs no script, cannot fail.
JSObject_getOwnIndexed(st, o, k) ==
    [st EXCEPT !.r = "true", !.v = GetOwn(st.heap[o], k).v,
               !.log = Append(@, Ev("read", o, k, GetOwn(st.heap[o], k).v, "true"))]

\* JSObject::getNamedPropertyValue_RJS: the value of a data property, or what
\* the getter returns; the getter may raise.
JSObject_getNamedPropertyValue(st, f, o, k) ==
    LET p == GetOwn(st.heap[o], k)
        res == IF Fails(st, f) \/ p.acc = "throws" THEN "exc" ELSE "true"
        val == IF res = "true" THEN p.v ELSE Undefined
    IN  [st EXCEPT !.k = @ + 1, !.r = res, !.v = val,
                   !.thrown = IF res = "exc" THEN "Error" ELSE @,
                   !.log = Append(@, Ev("read", o, k, val, res))]

\* toObject of a primitive that is neither null nor undefined: a wrapper
\* object without enumerable own properties.
toObject(st) ==
    [st EXCEPT !.heap = Append(@, NewObject("Wrapper")), !.o = Len(st.heap) + 1, !.r = "true"]

\* indexedCB's filter.
indexedVisited(desc) == desc.e

\* namedCB's filter.
namedVisited(desc) == desc.e /\ ~desc.internal

\* A slip: the callback goes on after a call raised.
callbackGoesOn_always(r) == TRUE

\* A callback returns false, which stops the enumeration, exactly when the
\* call it made raised.
callbackGoesOn(r) == r # "exc"

\* JSObject::hasNamedOrIndexed(excludedItems, sym), asserted not to raise.
nameExcluded(h, excludedItems, k) == excludedItems # 0 /\ HasOwn(h[excludedItems], k)

\* indexedCB: r = "stop" when the callback returns false.
indexedCB(st, x, k) ==
    IF ~indexedVisited(GetOwn(st.heap[x.source], k)) THEN [st EXCEPT !.r = "true"]
    ELSE
    LET s1 == IF x.excludedItems # 0
              THEN JSObject_getOwnDescriptor(st, x.f, x.excludedItems, k)
              ELSE [st EXCEPT !.r = "false"]
    IN
    IF ~callbackGoesOn(s1.r) THEN [s1 EXCEPT !.r = "stop"]
    ELSE IF s1.r = "true" THEN s1
    ELSE
    LET s2 == JSObject_getOwnIndexed(s1, x.source, k)
        s3 == JSObject_defineOwnProperty(s2, x.f, x.how, x.target, k,
                  DefaultNewPropertyFlags, s2.v, FALSE)
    IN  IF ~callbackGoesOn(s3.r) THEN [s3 EXCEPT !.r = "stop"] ELSE [s3 EXCEPT !.r = "true"]

\* namedCB: r = "stop" when the callback returns false.
namedCB(st, x, k) ==
    IF ~namedVisited(GetOwn(st.heap[x.source], k)) THEN [st EXCEPT !.r = "true"]
    ELSE IF nameExcluded(st.heap, x.excludedItems, k) THEN [st EXCEPT !.r = "true"]
    ELSE
    LET s1 == JSObject_getNamedPropertyValue(st, x.f, x.source, k) IN
    IF ~callbackGoesOn(s1.r) THEN [s1 EXCEPT !.r = "stop"]
    ELSE
    LET s2 == JSObject_defineOwnProperty(s1, x.f, x.how, x.target, k,
                  DefaultNewPropertyFlags, s1.v, FALSE)
    IN  IF ~callbackGoesOn(s2.r) THEN [s2 EXCEPT !.r = "stop"] ELSE [s2 EXCEPT !.r = "true"]

\* JSObject::forEachOwnPropertyWhile over the keys from position j on.
RECURSIVE forEachOwnPropertyWhile(_, _, _, _)
forEachOwnPropertyWhile(st, x, keys, j) ==
    IF j > Len(keys) THEN [st EXCEPT !.r = "true"]
    ELSE LET s1 == IF isIdx(keys[j]) THEN indexedCB(st, x, keys[j])
                   ELSE namedCB(st, x, keys[j])
         IN  IF s1.r = "stop" THEN s1 ELSE forEachOwnPropertyWhile(s1, x, keys, j + 1)

\* A slip: undefined is returned for a null or undefined source.
nullSourceResult_undefined(args) == Undefined

\* What the handler returns for a null or undefined source:
\* target.getHermesValue().
nullSourceResult(args) == getArg(args, 0)

\* The handler.  The wrapper toObject may allocate lives in the handler's
\* GCScope; the heap keeps the objects it had (h), as changed by the call.
hermesBuiltinCopyDataProperties(h, c, args, f, how) ==
    LET st == Start(h)
        keep(s) == [s EXCEPT !.heap = SubSeq(s.heap, 1, Len(h))]
    IN
    IF ~isObject(getArg(args, 0)) THEN Outcome(st, c, Undefined, FALSE)
    ELSE IF isNull(getArg(args, 1)) \/ isUndefined(getArg(args, 1)) THEN
        Outcome(st, c, nullSourceResult(args), FALSE)
    ELSE
    LET s0 == IF isObject(getArg(args, 1))
              THEN [st EXCEPT !.o = getArg(args, 1).n]
              ELSE toObject(st)
        x == [target |-> getArg(args, 0).n, source |-> s0.o,
              excludedItems |-> IF isObject(getArg(args, 2)) THEN getArg(args, 2).n ELSE 0,
              f |-> f, how |-> how]
        s1 == forEachOwnPropertyWhile(s0, x, OwnKeys(s0.heap[s0.o]), 1)
    IN  IF s1.r = "stop" THEN Outcome(keep(s1), c, EXCEPTION, FALSE)
        ELSE Outcome(keep(s1), c, getArg(args, 0), FALSE)

-----------------------------------------------------------------------------
(* The inputs of copyDataProperties: a target, a source and an object of    *)
(* excluded keys on the heap, and one call.                                 *)

\* The kinds of property a source may hold.
NamedKinds == {"data", "hidden", "getter", "throws", "internal"}
IndexedKinds == {"data", "hidden"}

MkProp(kind, v) ==
    [v |-> v, w |-> TRUE, e |-> kind # "hidden", c |-> TRUE,
     acc |-> IF kind \in {"getter", "throws"} THEN kind ELSE "data",
     internal |-> kind = "internal"]

\* The names of a source with n named properties, in definition order.
SourceNames(n) == [j \in 1..n |-> Names[n + 1 - j]]

\* A source: indexed properties 0..Len(ik)-1 and Len(nk) named properties,
\* of the given kinds, each with a value of its own.
MkSource(ik, nk) ==
    [NewObject("Object") EXCEPT
        !.idx = [i \in 0..(Len(ik) - 1) |-> MkProp(ik[i + 1], Num(10 + i))],
        !.named = [j \in 1..Len(nk) |->
                      [k |-> SourceNames(Len(nk))[j], p |-> MkProp(nk[j], Num(20 + j))]]]

KindSeqs(kinds, n) == UNION {[1..m -> kinds] : m \in 0..n}

CopySources ==
    {MkSource(ik, nk) : ik \in KindSeqs(IndexedKinds, MaxIndexed),
                        nk \in KindSeqs(NamedKinds, MaxNamed)}

\* Targets: a fresh object, an object that has a configurable a, a
\* non-extensible object, and one whose a is read-only and non-configurable.
CopyTargets ==
    {NewObject("Object"),
     [NewObject("Object") EXCEPT !.named = <<[k |-> "a", p |-> Prop(Num(99), TRUE, TRUE, TRUE)]>>],
     [NewObject("Object") EXCEPT !.ext = FALSE],
     [NewObject("Object") EXCEPT !.named = <<[k |-> "a", p |-> Prop(Num(99), FALSE, TRUE, FALSE)]>>]}

\* Excluded keys: none, or the keys b and 0.
CopyExcluded ==
    {NewObject("Object"),
     [NewObject("Object") EXCEPT
        !.idx = (0 :> Prop(Num(1), TRUE, TRUE, TRUE)),
        !.named = <<[k |-> "b", p |-> Prop(Num(1), TRUE, TRUE, TRUE)]>>]}

InitCopy ==
    /\ \E t \in CopyTargets, src \in CopySources, e \in CopyExcluded : heap = <<t, src, e>>
    /\ cache = EmptyCache
    /\ thrown = "none"
    /\ aborted = FALSE
    /\ call = NoCall
    /\ ret = NoReturn
    /\ log = <<>>
    /\ returned = [m \in Modules |-> [i \in Ids |-> {}]]
    /\ sp = NoSpread
    /\ frames = <<>>
    /\ callees = <<>>
    /\ delegated = <<>>
    /\ builtins = <<>>

\* The argument lists: the target or a non-object, the source or a
\* primitive, and the excluded keys or none.
CopyArgs ==
    {<<t, src>> \o e : t \in {Obj(1), Num(5)},
                       src \in {Obj(2), Null, Undefined, Num(7)},
                       e \in {<<>>, <<Obj(3)>>}}

CopyRun(h, c, args) == hermesBuiltinCopyDataProperties(h, c, args, 0, "exc")

CopyOutcomes(h, c, args) ==
    {hermesBuiltinCopyDataProperties(h, c, args, f, how) :
        f \in 0..CopyRun(h, c, args).k, how \in {"exc"}}

\* Compiled code calls copyDataProperties, once.
CopyDataProperties ==
    /\ call = NoCall
    /\ \E args \in CopyArgs :
        \E out \in CopyOutcomes(heap, cache, args) :
            /\ heap' = out.heap
            /\ cache' = out.cache
            /\ thrown' = out.thrown
            /\ aborted' = out.aborted
            /\ ret' = out.ret
            /\ log' = out.log
            /\ call' = [op |-> "copyDataProperties", module |-> 0, args |-> args]
            /\ UNCHANGED <<returned, sp, frames, callees, delegated, builtins>>

NextCopy == CopyDataProperties

SpecCopy == InitCopy /\ [][NextCopy]_vars

-----------------------------------------------------------------------------
(* hermesBuiltinCopyRestArgs *)

MaxArgs == 3       \* arguments of a caller's frame
MaxDepth == 2      \* frames below the native call's own

\* A uint32_t, held as two 16-bit halves.
U32(hi, lo) == [hi |-> hi, lo |-> lo]

U32Leq(a, b) == a.hi < b.hi \/ (a.hi = b.hi /\ a.lo <= b.lo)

\* A slip: the conversion keeps the low 16 bits only.
truncateToUInt32_low16(d) == U32(0, d % 65536)

\* truncateToUInt32 of an integral double: the value modulo 2^32.
truncateToUInt32(d) == U32((d \div 65536) % 65536, d % 65536)

\* uint32_t length = from <= argCount ? argCount - from : 0;
restLength(from, argCount) ==
    IF U32Leq(from, U32(0, argCount)) THEN argCount - from.lo ELSE 0

\* unsafeSetExistingElementAt: sets element i, which is within the length.
setExistingElementAt(st, o, i, v) ==
    [st EXCEPT !.heap[o].idx = (i :> Prop(v, TRUE, TRUE, TRUE)) @@ @,
               !.log = Append(@, Ev("set", o, Idx(i), v, "true"))]

\* The loop that copies the caller's arguments from, from + 1, ...
RECURSIVE restLoop(_, _, _, _, _, _)
restLoop(st, array, callerArgs, from, i, length) ==
    IF i = length THEN st
    ELSE restLoop(setExistingElementAt(st, array, i, callerArgs[from + 1]),
                  array, callerArgs, from + 1, i + 1, length)

\* The handler; fr are the frames below its own, the caller's first.
hermesBuiltinCopyRestArgs(h, c, fr, args, f) ==
    LET st == Start(h) IN
    IF fr = <<>> THEN Outcome(st, c, Undefined, FALSE)
    ELSE IF ~isNumber(getArg(args, 0)) THEN Outcome(st, c, Undefined, FALSE)
    ELSE
    LET from == truncateToUInt32(getArg(args, 0).n)
        argCount == Len(fr[1])
        length == restLength(from, argCount)
        s1 == JSArray_create(st, f, length)
    IN  IF s1.r = "exc" THEN Outcome(s1, c, EXCEPTION, FALSE)
        ELSE Outcome(restLoop(s1, s1.o, fr[1], from.lo, 0, length), c, Obj(s1.o), FALSE)

-----------------------------------------------------------------------------
(* The inputs of copyRestArgs: a stack of frames, and one call.             *)

\* The arguments of the frame at depth d that holds n arguments.
FrameArgs(d, n) == [j \in 1..n |-> Num(10 * d + j)]

FrameStacks ==
    UNION {{[d \in 1..m |-> FrameArgs(d, ns[d])] : ns \in [1..m -> 0..MaxArgs]} : m \in 0..MaxDepth}

\* What compiled code, or anything else, may pass as from.
FromValues ==
    {Num(n) : n \in (-2..(MaxArgs + 2)) \cup {65536, 65537, -65536, 2147483647}}
        \cup {Undefined, Null, Bool(TRUE), Str("a")}

InitRest ==
    /\ heap = <<>>
    /\ cache = EmptyCache
    /\ thrown = "none"
    /\ aborted = FALSE
    /\ call = NoCall
    /\ ret = NoReturn
    /\ log = <<>>
    /\ returned = [m \in Modules |-> [i \in Ids |-> {}]]
    /\ sp = NoSpread
    /\ frames \in FrameStacks
    /\ callees = <<>>
    /\ delegated = <<>>
    /\ builtins = <<>>

\* Compiled code calls copyRestArgs, once; the call leaves the stack as it was.
CopyRestArgs ==
    /\ call = NoCall
    /\ \E from \in FromValues, f \in 0..1 :
        LET out == hermesBuiltinCopyRestArgs(heap, cache, frames, <<from>>, f) IN
            /\ f <= hermesBuiltinCopyRestArgs(heap, cache, frames, <<from>>, 0).k
            /\ heap' = out.heap
            /\ cache' = out.cache
            /\ thrown' = out.thrown
            /\ aborted' = out.aborted
            /\ ret' = out.ret
            /\ log' = out.log
            /\ call' = [op |-> "copyRestArgs", module |-> 0, args |-> <<from>>]
            /\ UNCHANGED <<returned, sp, frames, callees, delegated, builtins>>

NextRest == CopyRestArgs

SpecRest == InitRest /\ [][NextRest]_vars

-----------------------------------------------------------------------------
(* hermesBuiltinArraySpread.  The iterator steps run script, so the handler *)
(* is modelled step by step: sp holds its locals and its position (pc).     *)

MaxSpread == 2     \* elements of a spread source

\* JSArray::putComputed_RJS on array o without ThrowOnError: sets a writable
\* element or adds one; r = "false" when the array refuses.
JSArray_putComputed(st, f, how, o, k, v) ==
    LET res == IF Fails(st, f) THEN how
               ELSE IF CanSet(st.heap[o], k) THEN "true" ELSE "false"
    IN  [st EXCEPT !.k = @ + 1, !.r = res,
                   !.thrown = IF res = "exc" THEN "Error" ELSE @,
                   !.heap = IF res = "true" THEN [@ EXCEPT ![o] = SetProp(@, k, v)] ELSE @,
                   !.log = Append(@, Ev("put", o, k, v, res))]

\* getIterator: arrays are iterable here; anything else raises a TypeError,
\* and the script that opens a user's iterator may raise as well.
getIterator(st, f, v) ==
    LET iterable == isObject(v) /\ st.heap[v.n].cls = "Array"
        res == IF Fails(st, f) \/ ~iterable THEN "exc" ELSE "true"
    IN  [st EXCEPT !.k = @ + 1, !.r = res, !.o = IF res = "true" THEN v.n ELSE 0,
                   !.thrown = IF res = "true" THEN @
                              ELSE IF iterable THEN "Error" ELSE "TypeError",
                   !.log = Append(@, Ev("getIterator", IF iterable THEN v.n ELSE 0,
                                        Name(""), v, res))]

\* iteratorStep on the iterator of array src at position pos: r = "done" when
\* it is exhausted, else the step's result object holds the element (v).
iteratorStep(st, f, src, pos) ==
    LET res == IF Fails(st, f) THEN "exc"
               ELSE IF pos >= st.heap[src].len THEN "done" ELSE "true"
        val == IF res = "true" THEN GetOwn(st.heap[src], Idx(pos)).v ELSE Undefined
    IN  [st EXCEPT !.k = @ + 1, !.r = res, !.v = val,
                   !.thrown = IF res = "exc" THEN "Error" ELSE @,
                   !.log = Append(@, Ev("step", src, Idx(pos), val, res))]

\* JSObject::getNamed_RJS(next, value): the value the step's result holds.
getNamed_value(st, f, next) ==
    LET res == IF Fails(st, f) THEN "exc" ELSE "true"
    IN  [st EXCEPT !.k = @ + 1, !.r = res, !.v = IF res = "true" THEN next ELSE Undefined,
                   !.thrown = IF res = "exc" THEN "Error" ELSE @,
                   !.log = Append(@, Ev("value", 0, Name("value"),
                                        IF res = "true" THEN next ELSE Undefined, res))]

\* f. Let nextIndex be nextIndex + 1.
nextIndexAfterPut(nextIndex) == nextIndex + 1

\* nextRes == ExecutionStatus::EXCEPTION
stepRaised(r) == r = "exc"

\* Lines 398-413: the target check and getIterator; sp is the activation
\* when the handler goes on to the loop.
arraySpreadEnter(h, args, f) ==
    LET st == Start(h)
        target == getArg(args, 0)
    IN  IF ~(isObject(target) /\ h[target.n].cls = "Array") THEN
            [st |-> raiseTypeError(st), ret |-> EXCEPTION, sp |-> NoSpread]
        ELSE LET s1 == getIterator(st, f, getArg(args, 1)) IN
            IF s1.r = "exc" THEN [st |-> s1, ret |-> EXCEPTION, sp |-> NoSpread]
            ELSE [st |-> s1, ret |-> NoReturn,
                  sp |-> [pc |-> "step", target |-> target.n, source |-> s1.o,
                          pos |-> 0, nextIndex |-> getArg(args, 2).n,
                          next |-> Undefined, nextValue |-> Undefined]]

-----------------------------------------------------------------------------
(* The inputs of arraySpread: a target array, a source array and a plain    *)
(* object on the heap, and one call.                                        *)

\* An array of the given values; w: are the elements and the length writable?
ArrayOf(vals, w, ext) ==
    [NewObject("Array") EXCEPT
        !.idx = [i \in 0..(Len(vals) - 1) |-> Prop(vals[i + 1], w, TRUE, w)],
        !.len = Len(vals), !.lenW = w, !.ext = ext]

\* Targets: an empty array, an array of two elements, the same made
\* non-extensible, and a frozen array.
SpreadTargets ==
    {ArrayOf(<<>>, TRUE, TRUE), ArrayOf(<<Num(1), Num(2)>>, TRUE, TRUE),
     ArrayOf(<<Num(1), Num(2)>>, TRUE, FALSE), ArrayOf(<<Num(1)>>, FALSE, FALSE)}

SpreadSources == {ArrayOf([j \in 1..m |-> Num(20 + j)], TRUE, TRUE) : m \in 0..MaxSpread}

SpreadArgs ==
    {<<t, src, Num(n)>> : t \in {Obj(1), Obj(3), Num(0)},
                          src \in {Obj(2), Obj(3), Undefined},
                          n \in 0..2}

InitSpread ==
    /\ \E t \in SpreadTargets, src \in SpreadSources : heap = <<t, src, NewObject("Object")>>
    /\ cache = EmptyCache
    /\ thrown = "none"
    /\ aborted = FALSE
    /\ call = NoCall
    /\ ret = NoReturn
    /\ log = <<>>
    /\ returned = [m \in Modules |-> [i \in Ids |-> {}]]
    /\ sp = NoSpread
    /\ frames = <<>>
    /\ callees = <<>>
    /\ delegated = <<>>
    /\ builtins = <<>>

\* The handler's activation goes on to its next position after the call in st.
SpreadGoesOn(st, next) ==
    /\ heap' = st.heap
    /\ thrown' = st.thrown
    /\ log' = log \o st.log
    /\ sp' = next
    /\ UNCHANGED <<cache, aborted, call, ret, returned, frames, callees, delegated, builtins>>

\* The handler returns r after the call in st.
SpreadReturns(st, r) ==
    /\ heap' = st.heap
    /\ thrown' = st.thrown
    /\ log' = log \o st.log
    /\ ret' = r
    /\ sp' = [sp EXCEPT !.pc = "idle"]
    /\ UNCHANGED <<cache, aborted, call, returned, frames, callees, delegated, builtins>>

\* Compiled code calls arraySpread, once.
ArraySpreadCall ==
    /\ sp.pc = "idle"
    /\ call = NoCall
    /\ \E args \in SpreadArgs, f \in 0..1 :
        LET out == arraySpreadEnter(heap, args, f) IN
            /\ heap' = out.st.heap
            /\ thrown' = out.st.thrown
            /\ log' = out.st.log
            /\ ret' = out.ret
            /\ sp' = out.sp
            /\ call' = [op |-> "arraySpread", module |-> 0, args |-> args]
            /\ UNCHANGED <<cache, aborted, returned, frames, callees, delegated, builtins>>

\* a, b: the iterator step; on exhaustion the handler returns nextIndex.
SpreadStep ==
    /\ sp.pc = "step"
    /\ \E f \in 0..1 :
        LET s1 == iteratorStep(Start(heap), f, sp.source, sp.pos) IN
            IF stepRaised(s1.r) THEN SpreadReturns(s1, EXCEPTION)
            ELSE IF s1.r # "true" THEN SpreadReturns(s1, Num(sp.nextIndex))
            ELSE SpreadGoesOn(s1, [sp EXCEPT !.pc = "value", !.pos = @ + 1, !.next = s1.v])

\* c: the read of the step's value.
SpreadValue ==
    /\ sp.pc = "value"
    /\ \E f \in 0..1 :
        LET s1 == getNamed_value(Start(heap), f, sp.next) IN
            IF s1.r = "exc" THEN SpreadReturns(s1, EXCEPTION)
            ELSE SpreadGoesOn(s1, [sp EXCEPT !.pc = "put", !.nextValue = s1.v])

\* d-f: the write to the target, whose result is examined for EXCEPTION only.
SpreadPut ==
    /\ sp.pc = "put"
    /\ \E f \in 0..1 :
        LET s1 == JSArray_putComputed(Start(heap), f, "exc", sp.target,
                                      Idx(sp.nextIndex), sp.nextValue) IN
            IF s1.r = "exc" THEN SpreadReturns(s1, EXCEPTION)
            ELSE SpreadGoesOn(s1, [sp EXCEPT !.pc = "step",
                                             !.nextIndex = nextIndexAfterPut(@)])

NextSpread == ArraySpreadCall \/ SpreadStep \/ SpreadValue \/ SpreadPut

\* The handler is native code on the one thread of the runtime: once called
\* it takes its next step, and each step of the iterators modelled returns.
SpecSpread ==
    /\ InitSpread
    /\ [][NextSpread]_vars
    /\ WF_vars(SpreadStep) /\ WF_vars(SpreadValue) /\ WF_vars(SpreadPut)

-----------------------------------------------------------------------------
(* hermesBuiltinApply.  The function called is script: what it returns, or  *)
(* that it raises, is an input (res).                                       *)

MaxApplyArgs == 2  \* elements of an argument array

\* A slip: the cast takes an object of any class.
dyncastArg_anyObject(h, args, i, cls) ==
    IF isObject(getArg(args, i)) THEN getArg(args, i).n ELSE 0

\* args.dyncastArg<Callable>(0), args.dyncastArg<JSArray>(1): 0 when the
\* argument is not of the class.
dyncastArg(h, args, i, cls) ==
    IF isObject(getArg(args, i)) /\ h[getArg(args, i).n].cls = cls
    THEN getArg(args, i).n ELSE 0

\* A slip: the dispatch looks at the value of the third argument.
isConstructor_byValue(args) == isUndefined(getArg(args, 2))

\* bool isConstructor = args.getArgCount() == 2;
isConstructor(args) == Len(args) = 2

\* Callable::createThisForConstruct: a new object for fn to initialise.
Callable_createThisForConstruct(st, f, fn) ==
    IF Fails(st, f) THEN
        [st EXCEPT !.k = @ + 1, !.r = "exc", !.o = 0, !.thrown = "Error",
                   !.log = Append(@, Ev("createThis", fn, Name(""), Undefined, "exc"))]
    ELSE
        [st EXCEPT !.k = @ + 1, !.r = "true", !.o = Len(st.heap) + 1,
                   !.v = Obj(Len(st.heap) + 1),
                   !.heap = Append(@, NewObject("Object")),
                   !.log = Append(@, Ev("createThis", fn, Name(""),
                                        Obj(Len(st.heap) + 1), "true"))]

\* ScopedNativeCallFrame: a frame for fn with room for len arguments.
ScopedNativeCallFrame(st, fn, len, construct, thisVal) ==
    [st EXCEPT !.log = Append(@, Ev("frame", fn, Idx(len), thisVal,
                                    IF construct THEN "construct" ELSE "call"))]

\* newFrame->getArgRef(i) = argArray->at(runtime, i), for i < len.
RECURSIVE copyArgs(_, _, _, _)
copyArgs(st, argArray, i, len) ==
    IF i >= len THEN st
    ELSE copyArgs([st EXCEPT !.log = Append(@, Ev("arg", argArray, Idx(i),
                                  GetOwn(st.heap[argArray], Idx(i)).v, "true"))],
                  argArray, i + 1, len)

\* Callable::call: fn runs with the frame's this and arguments and returns
\* res, or raises.
Callable_call(st, fn, res) ==
    [st EXCEPT !.r = IF res = EXCEPTION THEN "exc" ELSE "true", !.v = res,
               !.thrown = IF res = EXCEPTION THEN "Error" ELSE @,
               !.log = Append(@, Ev("call", fn, Name(""), res,
                                    IF res = EXCEPTION THEN "exc" ELSE "true"))]

\* Callable::construct: fn runs as a constructor; the value is the object it
\* returns, or else this.
Callable_construct(st, fn, thisVal, res) ==
    LET val == IF res = EXCEPTION THEN EXCEPTION
               ELSE IF isObject(res) THEN res ELSE thisVal
    IN  [st EXCEPT !.r = IF res = EXCEPTION THEN "exc" ELSE "true", !.v = val,
                   !.thrown = IF res = EXCEPTION THEN "Error" ELSE @,
                   !.log = Append(@, Ev("construct", fn, Name(""), val,
                                        IF res = EXCEPTION THEN "exc" ELSE "true"))]

\* The handler.
hermesBuiltinApply(h, c, args, f, res) ==
    LET st == Start(h)
        fn == dyncastArg(h, args, 0, "Function")
        argArray == dyncastArg(h, args, 1, "Array")
    IN
    IF fn = 0 THEN Outcome(raiseTypeError(st), c, EXCEPTION, FALSE)
    ELSE IF argArray = 0 THEN Outcome(raiseTypeError(st), c, EXCEPTION, FALSE)
    ELSE
    LET len == h[argArray].len
        s1 == IF isConstructor(args) THEN Callable_createThisForConstruct(st, f, fn)
              ELSE [st EXCEPT !.r = "true", !.v = getArg(args, 2)]
    IN  IF s1.r = "exc" THEN Outcome(s1, c, EXCEPTION, FALSE)
        ELSE
        LET s2 == copyArgs(ScopedNativeCallFrame(s1, fn, len, isConstructor(args), s1.v),
                           argArray, 0, len)
            s3 == IF isConstructor(args) THEN Callable_construct(s2, fn, s1.v, res)
                  ELSE Callable_call(s2, fn, res)
        IN  Outcome(s3, c, s3.v, FALSE)

-----------------------------------------------------------------------------
(* The inputs of apply: a function, an argument array, an object that is    *)
(* neither, and an object to pass as this, on the heap; and one call.       *)

ApplyElements == {Num(1), Undefined}

ApplyArrays ==
    {ArrayOf(vals, TRUE, TRUE) : vals \in UNION {[1..m -> ApplyElements] : m \in 0..MaxApplyArgs}}

\* The argument lists: fn or a value that is not callable, argArray or a
\* value that is not an array, and nothing, a this value, or a this value
\* and one more argument.
ApplyArgs ==
    {<<fn, arr>> \o rest : fn \in {Obj(1), Obj(3), Num(7)},
                           arr \in {Obj(2), Obj(3), Undefined},
                           rest \in {<<>>, <<Undefined>>, <<Obj(4)>>, <<Num(5)>>,
                                     <<Obj(4), Num(6)>>}}

\* What fn does when run: returns a primitive or an object, or raises.
ApplyResults == {Undefined, Num(8), Obj(3), EXCEPTION}

InitApply ==
    /\ \E arr \in ApplyArrays :
          heap = <<NewObject("Function"), arr, NewObject("Object"), NewObject("Object")>>
    /\ cache = EmptyCache
    /\ thrown = "none"
    /\ aborted = FALSE
    /\ call = NoCall
    /\ ret = NoReturn
    /\ log = <<>>
    /\ returned = [m \in Modules |-> [i \in Ids |-> {}]]
    /\ sp = NoSpread
    /\ frames = <<>>
    /\ callees = <<>>
    /\ delegated = <<>>
    /\ builtins = <<>>

\* Compiled code calls apply, once.
Apply ==
    /\ call = NoCall
    /\ \E args \in ApplyArgs, f \in 0..1, res \in ApplyResults :
        LET out == hermesBuiltinApply(heap, cache, args, f, res) IN
            /\ heap' = out.heap
            /\ cache' = out.cache
            /\ thrown' = out.thrown
            /\ aborted' = out.aborted
            /\ ret' = out.ret
            /\ log' = out.log
            /\ call' = [op |-> "apply", module |-> 0, args |-> args]
            /\ UNCHANGED <<returned, sp, frames, callees, delegated, builtins>>

NextApply == Apply

SpecApply == InitApply /\ [][NextApply]_vars

-----------------------------------------------------------------------------
(* hermesBuiltinGeneratorSetDelegated *)

\* The GeneratorInnerFunctions on the heap.
Generators(h) == {o \in DOMAIN h : h[o].cls = "GeneratorInnerFunction"}

\* A slip: the closure of the outermost frame is taken.
previousFrameCallee_outermost(cs) == cs[Len(cs)]

\* runtime->getCurrentFrame().getPreviousFrame().getCalleeClosure(): the
\* callee closure of the frame that called the native function.
previousFrameCallee(cs) == cs[1]

\* dyn_vmcast_or_null<GeneratorInnerFunction>: 0 when the closure is none or
\* of another class.
dynGenerator(h, o) == IF o # 0 /\ o \in Generators(h) THEN o ELSE 0

\* gen->setIsDelegated(true)
setIsDelegated(d, gen) == [d EXCEPT ![gen] = TRUE]

\* The handler: the outcome, and the flags it leaves.
hermesBuiltinGeneratorSetDelegated(h, c, d, cs) ==
    LET st == Start(h)
        gen == dynGenerator(h, previousFrameCallee(cs))
    IN  IF gen = 0 THEN
            [out |-> Outcome(raiseTypeError(st), c, EXCEPTION, FALSE), delegated |-> d]
        ELSE [out |-> Outcome(st, c, Undefined, FALSE), delegated |-> setIsDelegated(d, gen)]

-----------------------------------------------------------------------------
(* The callers of generatorSetDelegated: two generators and a plain         *)
(* function on the heap, and a stack of frames that script calls and        *)
(* returns change.                                                          *)

\* The closures a frame may be running: none (0), a generator, the function.
Closures == 0..3

InitGen ==
    /\ heap = <<NewObject("GeneratorInnerFunction"), NewObject("GeneratorInnerFunction"),
                NewObject("Function")>>
    /\ cache = EmptyCache
    /\ thrown = "none"
    /\ aborted = FALSE
    /\ call = NoCall
    /\ ret = NoReturn
    /\ log = <<>>
    /\ returned = [m \in Modules |-> [i \in Ids |-> {}]]
    /\ sp = NoSpread
    /\ frames = <<>>
    /\ \E o \in Closures : callees = <<o>>
    /\ delegated = [g \in 1..2 |-> FALSE]
    /\ builtins = <<>>

\* The code of the caller's frame calls generatorSetDelegated.
GeneratorSetDelegated ==
    LET res == hermesBuiltinGeneratorSetDelegated(heap, cache, delegated, callees) IN
        /\ heap' = res.out.heap
        /\ cache' = res.out.cache
        /\ thrown' = res.out.thrown
        /\ aborted' = res.out.aborted
        /\ ret' = res.out.ret
        /\ log' = res.out.log
        /\ delegated' = res.delegated
        /\ call' = [op |-> "generatorSetDelegated", module |-> 0, args |-> <<>>]
        /\ UNCHANGED <<returned, sp, frames, callees, builtins>>

\* Script calls a closure: a frame is pushed.  (An error still pending has
\* been caught by then.)
EnterFrame ==
    /\ Len(callees) < MaxDepth
    /\ \E o \in Closures : callees' = <<o>> \o callees
    /\ call' = [op |-> "enter", module |-> 0, args |-> <<>>]
    /\ ret' = NoReturn /\ log' = <<>> /\ thrown' = "none"
    /\ UNCHANGED <<heap, cache, aborted, returned, sp, frames, delegated, builtins>>

\* The running closure returns: its frame is popped.
LeaveFrame ==
    /\ Len(callees) > 1
    /\ callees' = Tail(callees)
    /\ call' = [op |-> "leave", module |-> 0, args |-> <<>>]
    /\ ret' = NoReturn /\ log' = <<>> /\ thrown' = "none"
    /\ UNCHANGED <<heap, cache, aborted, returned, sp, frames, delegated, builtins>>

NextGen == GeneratorSetDelegated \/ EnterFrame \/ LeaveFrame

SpecGen == InitGen /\ [][NextGen]_vars

-----------------------------------------------------------------------------
(* hermesBuiltinExportAll *)

\* args.dyncastArg<JSObject>(i): 0 when the argument is not an object.
dyncastObject(args, i) == IF isObject(getArg(args, i)) THEN getArg(args, i).n ELSE 0

\* Predefined::defaultExport
defaultExport == "default"

\* getDefaultNewPropertyFlags() with configurable = 0.
exportDPF == [DefaultNewPropertyFlags EXCEPT !.c = FALSE]

\* JSObject::getNamedSlotValue: reads the slot, runs no script, cannot fail.
JSObject_getNamedSlotValue(st, o, k) ==
    [st EXCEPT !.r = "true", !.v = GetOwn(st.heap[o], k).v,
               !.log = Append(@, Ev("read", o, k, GetOwn(st.heap[o], k).v, "true"))]

\* The callback of exportAll for the entry d of source's class: r = "stop"
\* when it returns false.
exportAllCB(st, x, d) ==
    IF ~d.p.e THEN [st EXCEPT !.r = "true"]
    ELSE IF d.k = defaultExport THEN [st EXCEPT !.r = "true"]
    ELSE
    LET s1 == JSObject_getNamedSlotValue(st, x.source, Name(d.k))
        s2 == JSObject_defineOwnProperty(s1, x.f, "exc", x.exports, Name(d.k),
                  exportDPF, s1.v, FALSE)
    IN  IF s2.r = "exc" THEN [s2 EXCEPT !.r = "stop"] ELSE [s2 EXCEPT !.r = "true"]

\* HiddenClass::forEachPropertyWhile over the entries of a class (the named
\* properties in definition order), from position j on.
RECURSIVE forEachPropertyWhile(_, _, _, _)
forEachPropertyWhile(st, x, props, j) ==
    IF j > Len(props) THEN [st EXCEPT !.r = "true"]
    ELSE LET s1 == exportAllCB(st, x, props[j])
         IN  IF s1.r = "stop" THEN s1 ELSE forEachPropertyWhile(s1, x, props, j + 1)

\* The handler.  The class of source is taken once, before the enumeration.
hermesBuiltinExportAll(h, c, args, f) ==
    LET st == Start(h)
        exports == dyncastObject(args, 0)
        source == dyncastObject(args, 1)
    IN
    IF exports = 0 THEN Outcome(raiseTypeError(st), c, EXCEPTION, FALSE)
    ELSE IF source = 0 THEN Outcome(raiseTypeError(st), c, EXCEPTION, FALSE)
    ELSE
    LET x == [exports |-> exports, source |-> source, f |-> f]
        s1 == forEachPropertyWhile(st, x, h[source].named, 1)
    IN  IF s1.r = "stop" THEN Outcome(s1, c, EXCEPTION, FALSE)
        ELSE Outcome(s1, c, Undefined, FALSE)

-----------------------------------------------------------------------------
(* The inputs of exportAll: an exports object and a source on the heap, and *)
(* one call.                                                                *)

\* The names a source may hold.
ExportNames == {defaultExport, "a", "b"}

\* The names of a source, in definition order.
ExportNameSeqs ==
    {q \in UNION {[1..m -> ExportNames] : m \in 0..MaxNamed} :
        \A i, j \in DOMAIN q : i # j => q[i] # q[j]}

\* A source with the names q, each enumerable ("data") or not ("hidden"),
\* each with a value of its own.
MkExportSource(q, kd) ==
    [NewObject("Object") EXCEPT
        !.named = [j \in 1..Len(q) |-> [k |-> q[j], p |-> MkProp(kd[j], Num(20 + j))]]]

ExportSources ==
    {MkExportSource(q, kd) : q \in ExportNameSeqs, kd \in [1..MaxNamed -> {"data", "hidden"}]}

InitExport ==
    /\ \E t \in CopyTargets, src \in ExportSources : heap = <<t, src>>
    /\ cache = EmptyCache
    /\ thrown = "none"
    /\ aborted = FALSE
    /\ call = NoCall
    /\ ret = NoReturn
    /\ log = <<>>
    /\ returned = [m \in Modules |-> [i \in Ids |-> {}]]
    /\ sp = NoSpread
    /\ frames = <<>>
    /\ callees = <<>>
    /\ delegated = <<>>
    /\ builtins = <<>>

\* The argument lists: exports or a non-object, then a source (which may be
\* exports itself), a non-object, or nothing.
ExportArgs ==
    {<<t>> \o src : t \in {Obj(1), Num(5), Undefined},
                    src \in {<<Obj(2)>>, <<Obj(1)>>, <<Null>>, <<Str("a")>>, <<>>}}

ExportRun(h, c, args) == hermesBuiltinExportAll(h, c, args, 0)

ExportOutcomes(h, c, args) ==
    {hermesBuiltinExportAll(h, c, args, f) : f \in 0..ExportRun(h, c, args).k}

\* Compiled code calls exportAll, once.
ExportAll ==
    /\ call = NoCall
    /\ \E args \in ExportArgs :
        \E out \in ExportOutcomes(heap, cache, args) :
            /\ heap' = out.heap
            /\ cache' = out.cache
            /\ thrown' = out.thrown
            /\ aborted' = out.aborted
            /\ ret' = out.ret
            /\ log' = out.log
            /\ call' = [op |-> "exportAll", module |-> 0, args |-> args]
            /\ UNCHANGED <<returned, sp, frames, callees, delegated, builtins>>

NextExport == ExportAll

SpecExport == InitExport /\ [][NextExport]_vars

-----------------------------------------------------------------------------
(* silentObjectSetPrototypeOf *)

\* Is object o on the parent chain that starts at p?
RECURSIVE onParentChain(_, _, _)
onParentChain(h, p, o) ==
    IF p = 0 THEN FALSE
    ELSE IF p = o THEN TRUE
    ELSE onParentChain(h, h[p].parent, o)

\* JSObject::setParent(O, runtime, parent): keeps the parent O has, raises a
\* TypeError for a non-extensible O and for a parent that would close a
\* cycle, and sets the parent otherwise.
JSObject_setParent(st, f, o, parent) ==
    LET cur == st.heap[o]
        res == IF Fails(st, f) THEN "exc"
               ELSE IF cur.parent = parent THEN "true"
               ELSE IF ~cur.ext THEN "exc"
               ELSE IF onParentChain(st.heap, parent, o) THEN "exc"
               ELSE "true"
    IN  [st EXCEPT !.k = @ + 1, !.r = res,
                   !.thrown = IF res = "exc" THEN (IF Fails(st, f) THEN "Error" ELSE "TypeError")
                              ELSE @,
                   !.heap = IF res = "true" THEN [@ EXCEPT ![o].parent = parent] ELSE @,
                   !.log = Append(@, Ev("setParent", o, Name(""),
                                        IF parent = 0 THEN Null ELSE Obj(parent), res))]

\* A slip: the thrown value is left in place.
clearThrownValue_keep(st) == st

\* Runtime::clearThrownValue
clearThrownValue(st) == [st EXCEPT !.thrown = "none"]

\* The handler.
silentObjectSetPrototypeOf(h, c, args, f) ==
    LET st == Start(h)
        O == dyncastObject(args, 0)
        V == getArg(args, 1)
    IN
    IF O = 0 THEN Outcome(st, c, Undefined, FALSE)
    ELSE IF ~isNull(V) /\ ~isObject(V) THEN Outcome(st, c, Undefined, FALSE)
    ELSE
    LET parent == IF isNull(V) THEN 0 ELSE V.n
        s1 == JSObject_setParent(st, f, O, parent)
        s2 == clearThrownValue(s1)
    IN  Outcome(s2, c, Undefined, FALSE)

-----------------------------------------------------------------------------
(* The callers of silentSetPrototypeOf: three objects, each extensible or   *)
(* not, without parents at first, and any number of calls.                  *)

InitProto ==
    /\ \E e \in [1..3 -> BOOLEAN] :
          heap = [o \in 1..3 |-> [NewObject("Object") EXCEPT !.ext = e[o]]]
    /\ cache = EmptyCache
    /\ thrown = "none"
    /\ aborted = FALSE
    /\ call = NoCall
    /\ ret = NoReturn
    /\ log = <<>>
    /\ returned = [m \in Modules |-> [i \in Ids |-> {}]]
    /\ sp = NoSpread
    /\ frames = <<>>
    /\ callees = <<>>
    /\ delegated = <<>>
    /\ builtins = <<>>

\* The argument lists: an object or a non-object, then an object, null, a
\* value that is neither, or nothing.
ProtoArgs(h) ==
    {<<o>> \o p : o \in {Obj(n) : n \in DOMAIN h} \cup {Num(5), Undefined},
                  p \in {<<Obj(n)>> : n \in DOMAIN h} \cup {<<Null>>, <<Undefined>>, <<Num(7)>>, <<>>}}

\* Compiled code calls silentSetPrototypeOf; setParent may fail (f = 1).
SilentSetPrototypeOf ==
    \E args \in ProtoArgs(heap), f \in 0..1 :
        LET out == silentObjectSetPrototypeOf(heap, cache, args, f) IN
            /\ heap' = out.heap
            /\ cache' = out.cache
            /\ thrown' = out.thrown
            /\ aborted' = out.aborted
            /\ ret' = out.ret
            /\ log' = out.log
            /\ call' = [op |-> "silentSetPrototypeOf", module |-> 0, args |-> args]
            /\ UNCHANGED <<returned, sp, frames, callees, delegated, builtins>>

NextProto == SilentSetPrototypeOf

SpecProto == InitProto /\ [][NextProto]_vars

-----------------------------------------------------------------------------
(* The operations that validate their arguments, arraySpread, apply and     *)
(* exportAll, called on one heap: the heap of an apply call, of a spread    *)
(* call or of an exportAll call, so that an argument list made for one      *)
(* operation reaches the others with objects of the wrong class.            *)

ValidateHeaps ==
    {<<NewObject("Function"), arr, NewObject("Object"), NewObject("Object")>> :
        arr \in ApplyArrays}
    \cup {<<t, src, NewObject("Object"), NewObject("Object")>> :
            t \in SpreadTargets, src \in SpreadSources}
    \cup {<<t, src, NewObject("Object"), NewObject("Object")>> :
            t \in CopyTargets, src \in ExportSources}

InitValidate ==
    /\ heap \in ValidateHeaps
    /\ cache = EmptyCache
    /\ thrown = "none"
    /\ aborted = FALSE
    /\ call = NoCall
    /\ ret = NoReturn
    /\ log = <<>>
    /\ returned = [m \in Modules |-> [i \in Ids |-> {}]]
    /\ sp = NoSpread
    /\ frames = <<>>
    /\ callees = <<>>
    /\ delegated = <<>>
    /\ builtins = <<>>

NextValidate ==
    \/ ArraySpreadCall
    \/ SpreadStep
    \/ SpreadValue
    \/ SpreadPut
    \/ Apply
    \/ ExportAll

SpecValidate == InitValidate /\ [][NextValidate]_vars

-----------------------------------------------------------------------------
(* hermesBuiltinEnsureObject and hermesBuiltinThrowTypeError *)

\* Runtime::raiseTypeError(Handle<> message): installs a TypeError made from
\* the message value and yields EXCEPTION.
raiseTypeErrorWith(st, message) ==
    [st EXCEPT !.thrown = "TypeError", !.r = "exc",
               !.log = Append(@, Ev("raiseTypeError", 0, Name(""), message, "exc"))]

\* A slip: the value itself is taken for the message.
ensureObjectMessage_value(args) == getArg(args, 0)

\* The message of ensureObject: args.getArgHandle(1).
ensureObjectMessage(args) == getArg(args, 1)

hermesBuiltinEnsureObject(h, c, args) ==
    LET st == Start(h) IN
    IF isObject(getArg(args, 0)) THEN Outcome(st, c, Undefined, FALSE)
    ELSE Outcome(raiseTypeErrorWith(st, ensureObjectMessage(args)), c, EXCEPTION, FALSE)

hermesBuiltinThrowTypeError(h, c, args) ==
    Outcome(raiseTypeErrorWith(Start(h), getArg(args, 0)), c, EXCEPTION, FALSE)

-----------------------------------------------------------------------------
(* The callers of ensureObject and throwTypeError: two objects on the heap  *)
(* and any number of calls.                                                 *)

InitEnsure ==
    /\ \E t \in CopyTargets : heap = <<t, NewObject("Function")>>
    /\ cache = EmptyCache
    /\ thrown = "none"
    /\ aborted = FALSE
    /\ call = NoCall
    /\ ret = NoReturn
    /\ log = <<>>
    /\ returned = [m \in Modules |-> [i \in Ids |-> {}]]
    /\ sp = NoSpread
    /\ frames = <<>>
    /\ callees = <<>>
    /\ delegated = <<>>
    /\ builtins = <<>>

\* The messages a call passes: a string, another, a value that is not a
\* string, or none.
EnsureMessages == {<<Str("a")>>, <<Str("b")>>, <<Num(7)>>, <<Undefined>>, <<>>}

EnsureValues(h) ==
    {Obj(n) : n \in DOMAIN h} \cup {Num(5), Str("a"), Bool(TRUE), Null, Undefined}

EnsureObject ==
    \E v \in EnsureValues(heap), m \in EnsureMessages :
        LET args == <<v>> \o m
            out == hermesBuiltinEnsureObject(heap, cache, args) IN
            /\ heap' = out.heap
            /\ cache' = out.cache
            /\ thrown' = out.thrown
            /\ aborted' = out.aborted
            /\ ret' = out.ret
            /\ log' = out.log
            /\ call' = [op |-> "ensureObject", module |-> 0, args |-> args]
            /\ UNCHANGED <<returned, sp, frames, callees, delegated, builtins>>

ThrowTypeError ==
    \E m \in EnsureMessages \cup {<<Obj(1)>>, <<Str("a"), Str("b")>>} :
        LET out == hermesBuiltinThrowTypeError(heap, cache, m) IN
            /\ heap' = out.heap
            /\ cache' = out.cache
            /\ thrown' = out.thrown
            /\ aborted' = out.aborted
            /\ ret' = out.ret
            /\ log' = out.log
            /\ call' = [op |-> "throwTypeError", module |-> 0, args |-> m]
            /\ UNCHANGED <<returned, sp, frames, callees, delegated, builtins>>

NextEnsure == EnsureObject \/ ThrowTypeError

SpecEnsure == InitEnsure /\ [][NextEnsure]_vars

-----------------------------------------------------------------------------
(* The whole layer on one heap: any sequence of calls of the operations,    *)
(* from the code of two or more modules.  The heap holds a generator, a     *)
(* target object, a source object, a function, an array of arguments and a  *)
(* target array; the caller's frame runs the generator or the function.     *)

SharedModules == 1..(MaxModule + 1)

SharedHeap ==
    <<NewObject("GeneratorInnerFunction"),
      NewObject("Object"),
      [NewObject("Object") EXCEPT !.named = <<[k |-> "a", p |-> Prop(Num(21), TRUE, TRUE, TRUE)]>>],
      NewObject("Function"),
      ArrayOf(<<Num(21)>>, TRUE, TRUE),
      ArrayOf(<<>>, TRUE, TRUE)>>

\* The heap has room for the objects of the templates of the modules.
SharedRoom(h) == Len(h) <= Len(SharedHeap) + MaxObjs

InitShared ==
    /\ heap = SharedHeap
    /\ cache = [m \in SharedModules |-> [i \in Ids |-> 0]]
    /\ thrown = "none"
    /\ aborted = FALSE
    /\ call = NoCall
    /\ ret = NoReturn
    /\ log = <<>>
    /\ returned = [m \in Modules |-> [i \in Ids |-> {}]]
    /\ sp = NoSpread
    /\ frames = <<FrameArgs(1, 1)>>
    /\ callees \in {<<1>>, <<4>>}
    /\ delegated = [g \in 1..1 |-> FALSE]
    /\ builtins = <<>>

\* A call of operation op from module m with arguments args returns as out.
SharedReturns(out, op, m, args) ==
    /\ SharedRoom(out.heap)
    /\ heap' = out.heap
    /\ cache' = out.cache
    /\ thrown' = out.thrown
    /\ aborted' = out.aborted
    /\ ret' = out.ret
    /\ log' = out.log
    /\ call' = [op |-> op, module |-> m, args |-> args]

\* No handler is running: compiled code may make a call.
SharedIdle == sp.pc = "idle" /\ ~aborted

SharedGetTemplateObject ==
    /\ SharedIdle
    /\ \E savedCB \in {0} \cup SharedModules :
        LET args == <<Num(0), Bool(TRUE), Str("a")>> IN
        \E f \in 0..1 :
            SharedReturns(hermesBuiltinGetTemplateObject(heap, cache, savedCB, args,
                                                         f, "exc", TRUE),
                          "getTemplateObject", savedCB, args)
    /\ UNCHANGED <<returned, sp, frames, callees, delegated, builtins>>

SharedGeneratorSetDelegated ==
    /\ SharedIdle
    /\ LET res == hermesBuiltinGeneratorSetDelegated(heap, cache, delegated, callees) IN
        /\ SharedReturns(res.out, "generatorSetDelegated", 0, <<>>)
        /\ delegated' = res.delegated
    /\ UNCHANGED <<returned, sp, frames, callees, builtins>>

SharedCopyDataProperties ==
    /\ SharedIdle
    /\ \E args \in {<<Obj(2), Obj(3)>>, <<Obj(2), Null>>, <<Num(5), Obj(3)>>} :
        \E f \in 0..1 :
            SharedReturns(hermesBuiltinCopyDataProperties(heap, cache, args, f, "exc"),
                          "copyDataProperties", 0, args)
    /\ UNCHANGED <<returned, sp, frames, callees, delegated, builtins>>

\* The caller drops the array it gets: it is collected before the next call.
SharedCopyRestArgs ==
    /\ SharedIdle
    /\ \E from \in {Num(0), Num(1), Undefined}, f \in 0..1 :
        SharedReturns([hermesBuiltinCopyRestArgs(heap, cache, frames, <<from>>, f)
                          EXCEPT !.heap = heap],
                      "copyRestArgs", 0, <<from>>)
    /\ UNCHANGED <<returned, sp, frames, callees, delegated, builtins>>

SharedApply ==
    /\ SharedIdle
    /\ \E args \in {<<Obj(4), Obj(5), Undefined>>, <<Obj(2), Obj(5)>>},
          res \in {Undefined, EXCEPTION} :
        SharedReturns(hermesBuiltinApply(heap, cache, args, 0, res), "apply", 0, args)
    /\ UNCHANGED <<returned, sp, frames, callees, delegated, builtins>>

SharedExportAll ==
    /\ SharedIdle
    /\ \E args \in {<<Obj(2), Obj(3)>>, <<Obj(2), Undefined>>} :
        \E f \in 0..1 :
            SharedReturns(hermesBuiltinExportAll(heap, cache, args, f), "exportAll", 0, args)
    /\ UNCHANGED <<returned, sp, frames, callees, delegated, builtins>>

SharedSilentSetPrototypeOf ==
    /\ SharedIdle
    /\ \E args \in {<<Obj(2), Obj(3)>>, <<Obj(2), Null>>, <<Obj(3), Obj(2)>>}, f \in 0..1 :
        SharedReturns(silentObjectSetPrototypeOf(heap, cache, args, f),
                      "silentSetPrototypeOf", 0, args)
    /\ UNCHANGED <<returned, sp, frames, callees, delegated, builtins>>

SharedEnsureObject ==
    /\ SharedIdle
    /\ \E args \in {<<Obj(2), Str("a")>>, <<Num(5), Str("a")>>} :
        SharedReturns(hermesBuiltinEnsureObject(heap, cache, args), "ensureObject", 0, args)
    /\ UNCHANGED <<returned, sp, frames, callees, delegated, builtins>>

SharedThrowTypeError ==
    /\ SharedIdle
    /\ SharedReturns(hermesBuiltinThrowTypeError(heap, cache, <<Str("a")>>),
                     "throwTypeError", 0, <<Str("a")>>)
    /\ UNCHANGED <<returned, sp, frames, callees, delegated, builtins>>

\* arraySpread is entered here and goes on with SpreadStep, SpreadValue and
\* SpreadPut.
SharedArraySpread ==
    /\ SharedIdle
    /\ \E args \in {<<Obj(6), Obj(5), Num(0)>>, <<Obj(2), Obj(5), Num(0)>>}, f \in 0..1 :
        LET out == arraySpreadEnter(heap, args, f) IN
            /\ heap' = out.st.heap
            /\ thrown' = out.st.thrown
            /\ log' = out.st.log
            /\ ret' = out.ret
            /\ sp' = out.sp
            /\ call' = [op |-> "arraySpread", module |-> 0, args |-> args]
    /\ UNCHANGED <<cache, aborted, returned, frames, callees, delegated, builtins>>

NextShared ==
    \/ SharedGetTemplateObject
    \/ SharedGeneratorSetDelegated
    \/ SharedCopyDataProperties
    \/ SharedCopyRestArgs
    \/ SharedApply
    \/ SharedExportAll
    \/ SharedSilentSetPrototypeOf
    \/ SharedEnsureObject
    \/ SharedThrowTypeError
    \/ SharedArraySpread
    \/ SpreadStep
    \/ SpreadValue
    \/ SpreadPut

SpecShared == InitShared /\ [][NextShared]_vars

-----------------------------------------------------------------------------
(* createHermesBuiltins *)

MaxOther == 3      \* entries of the table that belong to other libraries

\* A NativeFunction: its function, its name and its parameter count.
NativeFunction_create(func, symID, cnt) == [func |-> func, name |-> symID, count |-> cnt]

\* An empty entry of the table (nullptr).
NullFunction == NativeFunction_create("", "", 0)

\* A slip: exportAll is registered under the index of apply.
Registrations_duplicate ==
    <<[index |-> "silentSetPrototypeOf", name |-> "silentSetPrototypeOf",
       func |-> "silentObjectSetPrototypeOf", count |-> 2],
      [index |-> "getTemplateObject", name |-> "getTemplateObject",
       func |-> "hermesBuiltinGetTemplateObject", count |-> 0],
      [index |-> "ensureObject", name |-> "ensureObject",
       func |-> "hermesBuiltinEnsureObject", count |-> 2],
      [index |-> "throwTypeError", name |-> "throwTypeError",
       func |-> "hermesBuiltinThrowTypeError", count |-> 1],
      [index |-> "generatorSetDelegated", name |-> "generatorSetDelegated",
       func |-> "hermesBuiltinGeneratorSetDelegated", count |-> 1],
      [index |-> "copyDataProperties", name |-> "copyDataProperties",
       func |-> "hermesBuiltinCopyDataProperties", count |-> 3],
      [index |-> "copyRestArgs", name |-> "copyRestArgs",
       func |-> "hermesBuiltinCopyRestArgs", count |-> 1],
      [index |-> "arraySpread", name |-> "arraySpread",
       func |-> "hermesBuiltinArraySpread", count |-> 2],
      [index |-> "apply", name |-> "apply",
       func |-> "hermesBuiltinApply", count |-> 2],
      [index |-> "apply", name |-> "exportAll",
       func |-> "hermesBuiltinExportAll", count |-> 0],
      [index |-> "exponentiationOperator", name |-> "exponentiationOperator",
       func |-> "mathPow", count |-> 0],
      [index |-> "requireFast", name |-> "requireFast",
       func |-> "requireFast", count |-> 1]>>

\* The calls of defineInternMethod, in order: the BuiltinMethod index, the
\* Predefined name, the function and the count (0 when none is given).
Registrations ==
    <<[index |-> "silentSetPrototypeOf", name |-> "silentSetPrototypeOf",
       func |-> "silentObjectSetPrototypeOf", count |-> 2],
      [index |-> "getTemplateObject", name |-> "getTemplateObject",
       func |-> "hermesBuiltinGetTemplateObject", count |-> 0],
      [index |-> "ensureObject", name |-> "ensureObject",
       func |-> "hermesBuiltinEnsureObject", count |-> 2],
      [index |-> "throwTypeError", name |-> "throwTypeError",
       func |-> "hermesBuiltinThrowTypeError", count |-> 1],
      [index |-> "generatorSetDelegated", name |-> "generatorSetDelegated",
       func |-> "hermesBuiltinGeneratorSetDelegated", count |-> 1],
      [index |-> "copyDataProperties", name |-> "copyDataProperties",
       func |-> "hermesBuiltinCopyDataProperties", count |-> 3],
      [index |-> "copyRestArgs", name |-> "copyRestArgs",
       func |-> "hermesBuiltinCopyRestArgs", count |-> 1],
      [index |-> "arraySpread", name |-> "arraySpread",
       func |-> "hermesBuiltinArraySpread", count |-> 2],
      [index |-> "apply", name |-> "apply",
       func |-> "hermesBuiltinApply", count |-> 2],
      [index |-> "exportAll", name |-> "exportAll",
       func |-> "hermesBuiltinExportAll", count |-> 0],
      [index |-> "exponentiationOperator", name |-> "exponentiationOperator",
       func |-> "mathPow", count |-> 0],
      [index |-> "requireFast", name |-> "requireFast",
       func |-> "requireFast", count |-> 1]>>

\* The enumerators BuiltinMethod::HermesBuiltin_*, in the order of the
\* enumeration.
HermesBuiltinMethods ==
    <<"silentSetPrototypeOf", "getTemplateObject", "ensureObject", "throwTypeError",
      "generatorSetDelegated", "copyDataProperties", "copyRestArgs", "arraySpread",
      "apply", "exportAll", "exponentiationOperator", "requireFast">>

\* The value of the enumerator: the enumerators of the other libraries come
\* first.
BuiltinIndex(b) == MaxOther + (CHOOSE j \in DOMAIN HermesBuiltinMethods : HermesBuiltinMethods[j] = b)

\* defineInternMethod: creates the function, asserts that the entry is
\* empty, and stores the function.  With assertions compiled in (~ndebug) a
\* taken entry ends the process (r = "abort"); an NDEBUG build overwrites it.
defineInternMethod(st, ndebug, reg) ==
    LET i == BuiltinIndex(reg.index)
        method == NativeFunction_create(reg.func, reg.name, reg.count)
        empty == st.table[i] = NullFunction
    IN  IF ~empty /\ ~ndebug THEN
            [st EXCEPT !.r = "abort",
                       !.log = Append(@, Ev("defineInternMethod", i, Name(reg.name),
                                            Str(reg.func), "abort"))]
        ELSE
            [st EXCEPT !.r = "true", !.table[i] = method,
                       !.log = Append(@, Ev("defineInternMethod", i, Name(reg.name),
                                            Str(reg.func), "true"))]

\* The calls of defineInternMethod from the j-th on.
RECURSIVE defineAll(_, _, _, _)
defineAll(st, ndebug, regs, j) ==
    IF j > Len(regs) THEN st
    ELSE LET s1 == defineInternMethod(st, ndebug, regs[j])
         IN  IF s1.r = "abort" THEN s1 ELSE defineAll(s1, ndebug, regs, j + 1)

\* createHermesBuiltins(runtime, builtins).
createHermesBuiltins(table, ndebug) ==
    defineAll([table |-> table, log |-> <<>>, r |-> "true"], ndebug, Registrations, 1)

-----------------------------------------------------------------------------
(* The start of a runtime: the table holds what the other libraries have    *)
(* registered, and createHermesBuiltins runs once.                          *)

\* A function of another library.
OtherFunction == NativeFunction_create("other", "other", 0)

TableSize == MaxOther + Len(HermesBuiltinMethods)

\* The indices of the layer.
HermesBuiltinIndices == {BuiltinIndex(HermesBuiltinMethods[j]) : j \in DOMAIN HermesBuiltinMethods}

\* The tables createHermesBuiltins may be run on: any of the entries of the
\* other libraries is taken, and at most one entry of the layer is.
StartTables ==
    {t \in [1..TableSize -> {NullFunction, OtherFunction}] :
        \A i, j \in HermesBuiltinIndices :
            (t[i] # NullFunction /\ t[j] # NullFunction) => i = j}

InitBuiltins ==
    /\ heap = <<>>
    /\ cache = EmptyCache
    /\ thrown = "none"
    /\ aborted = FALSE
    /\ call = NoCall
    /\ ret = NoReturn
    /\ log = <<>>
    /\ returned = [m \in Modules |-> [i \in Ids |-> {}]]
    /\ sp = NoSpread
    /\ frames = <<>>
    /\ callees = <<>>
    /\ delegated = <<>>
    /\ builtins \in StartTables

\* The runtime runs createHermesBuiltins, once, in either build.
CreateHermesBuiltins ==
    /\ call = NoCall
    /\ \E ndebug \in BOOLEAN :
        LET out == createHermesBuiltins(builtins, ndebug) IN
            /\ builtins' = out.table
            /\ log' = out.log
            /\ aborted' = (out.r = "abort")
            /\ call' = [op |-> "createHermesBuiltins", module |-> 0, args |-> <<>>]
    /\ UNCHANGED <<heap, cache, thrown, ret, returned, sp, frames, callees, delegated>>

NextBuiltins == CreateHermesBuiltins

SpecBuiltins == InitBuiltins /\ [][NextBuiltins]_vars

-----------------------------------------------------------------------------
(* Claims about getTemplateObject, checked under SpecTemplate. *)

LastIsTemplate == call.op = "getTemplateObject"

\* The last call found its (module, id) in the cache.
TemplateHit == LastIsTemplate /\ \E j \in DOMAIN log : log[j].e = "find" /\ log[j].o # 0

\* The last call looked its (module, id) up and missed.
TemplateMiss == LastIsTemplate /\ \E j \in DOMAIN log : log[j].e = "find" /\ log[j].o = 0

\* C1: calls from one module with one call-site id all return the same
\* object, whatever arguments they pass, and calls with different
\* (module, id) return different objects; the object a call returns is the
\* one recorded for its (module, id).
C1_TemplateIdentity ==
    /\ \A m \in Modules, i \in Ids : Cardinality(returned[m][i]) <= 1
    /\ \A m1 \in Modules, m2 \in Modules, i1 \in Ids, i2 \in Ids :
          (m1 # m2 \/ i1 # i2) => returned[m1][i1] \cap returned[m2][i2] = {}
    /\ (LastIsTemplate /\ isObject(ret)) =>
          returned[call.module][call.args[1].n] = {ret.n}

\* A hit whose argument list differs from the one the object was built
\* from, while another id of the module has its own object.
C1_Witness ==
    /\ TemplateHit
    /\ isObject(ret)
    /\ count(call.args) # heap[ret.n].len
    /\ \E i \in Ids : i # call.args[1].n /\ returned[call.module][i] # {}
                      /\ ret.n \notin returned[call.module][i]

\* C2: a cache entry, once set, is never changed or removed; the cache
\* changes only in a getTemplateObject call whose lookup missed, in exactly
\* the entry of the call's (module, id), by the call's last primitive step,
\* which stores the object the call returns; between the lookup and the
\* insert the call only creates arrays and defines properties (nothing that
\* runs script).
C2_CacheInsertOnce ==
    [][ /\ \A m \in Modules, i \in Ids : cache[m][i] # 0 => cache'[m][i] = cache[m][i]
        /\ cache' # cache =>
            /\ call'.op = "getTemplateObject"
            /\ Len(log') >= 2
            /\ log'[1].e = "find" /\ log'[1].o = 0
            /\ log'[Len(log')].e = "cache"
            /\ \A j \in 1..(Len(log') - 1) : log'[j].e # "cache"
            /\ \A j \in 2..(Len(log') - 1) :
                  log'[j].e \in {"create", "define", "preventExtensions"}
            /\ ret' = Obj(log'[Len(log')].o)
            /\ cache'[call'.module][call'.args[1].n] = ret'.n
            /\ \A m \in Modules, i \in Ids :
                  (m # call'.module \/ i # call'.args[1].n) => cache'[m][i] = cache[m][i]
      ]_vars

\* A call has just inserted its object while another entry was already there.
C2_Witness ==
    /\ TemplateMiss
    /\ Len(log) > 0 /\ log[Len(log)].e = "cache"
    /\ \E i \in Ids : i # call.args[1].n /\ cache[call.module][i] # 0

\* An array is frozen as a template array is: every element read-only,
\* non-configurable and enumerable, the length read-only, no extension.
FrozenArray(o) ==
    /\ o.cls = "Array"
    /\ ~o.ext
    /\ ~o.lenW
    /\ \A j \in DOMAIN o.idx : ~o.idx[j].w /\ ~o.idx[j].c /\ o.idx[j].e

\* A template object: a frozen array whose only named property, raw, is
\* read-only, non-configurable and non-enumerable and refers to a frozen array.
FrozenTemplate(t) ==
    /\ FrozenArray(heap[t])
    /\ NamedKeys(heap[t]) = {"raw"}
    /\ LET raw == NamedProp(heap[t], "raw")
       IN  /\ ~raw.w /\ ~raw.c /\ ~raw.e
           /\ isObject(raw.v)
           /\ raw.v.n \in DOMAIN heap
           /\ FrozenArray(heap[raw.v.n])
           /\ NamedKeys(heap[raw.v.n]) = {}

\* C3: every object getTemplateObject has returned or cached is a frozen
\* template object, in every state from then on.
C3_TemplateFrozen ==
    \A m \in Modules, i \in Ids :
        /\ \A t \in returned[m][i] : t \in DOMAIN heap /\ FrozenTemplate(t)
        /\ cache[m][i] # 0 => cache[m][i] \in DOMAIN heap /\ FrozenTemplate(cache[m][i])

\* Script has tried to change a returned template object that has elements,
\* and the object refused.
C3_Witness ==
    /\ call.op = "script"
    /\ ret = Bool(FALSE)
    /\ \E m \in Modules, i \in Ids :
          /\ call.args[1].n \in returned[m][i]
          /\ DOMAIN heap[call.args[1].n].idx # {}

\* A primitive call of the last getTemplateObject call failed.
TemplateStepFailed == LastIsTemplate /\ \E j \in DOMAIN log : log[j].r # "true"

\* C4 as claimed: when a construction step fails the call stops there,
\* returns EXCEPTION and caches nothing.
C4_AbortsOnFailure ==
    TemplateStepFailed =>
        /\ ret = EXCEPTION
        /\ log[Len(log)].r # "true"
        /\ \A j \in 1..(Len(log) - 1) : log[j].r = "true"
        /\ \A j \in DOMAIN log : log[j].e # "cache"

-----------------------------------------------------------------------------
(* Claims about copyDataProperties, checked under SpecCopy.  A step of      *)
(* SpecCopy is one call: the unprimed heap is the heap before the call.     *)

\* The call of the step is copyDataProperties with an object target.
CopyCalled(c) == c.op = "copyDataProperties" /\ isObject(c.args[1])

\* The source a call copies from: the object passed, or an object without
\* own properties for null, undefined and primitives.
CopySource(h, args) == IF isObject(args[2]) THEN h[args[2].n] ELSE NewObject("Object")

\* Is k a key of the excluded-keys object the call passed, if it passed one?
IsExcludedKey(h, args, k) ==
    Len(args) >= 3 /\ isObject(args[3]) /\ HasOwn(h[args[3].n], k)

\* The keys the call is to copy, in order: the own keys of the source that
\* are enumerable, not internal and not excluded.
ExpectedKeys(h, args) ==
    LET src == CopySource(h, args)
        wanted(k) == /\ GetOwn(src, k).e
                     /\ ~GetOwn(src, k).internal
                     /\ ~IsExcludedKey(h, args, k)
    IN  SelectSeq(OwnKeys(src), wanted)

\* The definitions a call attempted on object t, in order.
DefinesOn(lg, t) == SelectSeq(lg, LAMBDA ev : ev.e = "define" /\ ev.o = t)

KeysOf(evs) == [j \in DOMAIN evs |-> evs[j].k]

Range(q) == {q[j] : j \in DOMAIN q}

AllKeys(o) == Range(OwnKeys(o))

\* The place of key k in the enumeration of o's own keys.
KeyPos(o, k) == CHOOSE j \in DOMAIN OwnKeys(o) : OwnKeys(o)[j] = k

\* Object t holds key k exactly as before.
SameOwn(before, after, k) ==
    /\ HasOwn(after, k) <=> HasOwn(before, k)
    /\ HasOwn(before, k) => GetOwn(after, k) = GetOwn(before, k)

\* What a call that defines every key leaves: each expected key is defined
\* on the target once, in order, with the source's value and all three flags
\* true; nothing else of the target changes; the source and the excluded
\* keys are as before; the call returns the target.
CopiedExactly(h, h2, c, lg, r) ==
    LET t == c.args[1].n
        src == CopySource(h, c.args)
        exp == ExpectedKeys(h, c.args)
    IN  /\ r = c.args[1]
        /\ KeysOf(DefinesOn(lg, t)) = exp
        /\ \A j \in DOMAIN exp :
              /\ HasOwn(h2[t], exp[j])
              /\ GetOwn(h2[t], exp[j]) = Prop(GetOwn(src, exp[j]).v, TRUE, TRUE, TRUE)
        /\ \A k \in (AllKeys(h[t]) \cup AllKeys(h2[t])) \ Range(exp) : SameOwn(h[t], h2[t], k)
        /\ \A o \in DOMAIN h \ {t} : h2[o] = h[o]

\* The same, when the target may refuse a definition: a definition is
\* attempted for each expected key, in order, with the source's value; one
\* that took effect leaves the key with that value and all three flags true,
\* one that the target refused leaves the key as it was.
CopiedWhereAccepted(h, h2, c, lg, r) ==
    LET t == c.args[1].n
        src == CopySource(h, c.args)
        exp == ExpectedKeys(h, c.args)
        defs == DefinesOn(lg, t)
    IN  /\ r = c.args[1]
        /\ KeysOf(defs) = exp
        /\ \A j \in DOMAIN defs :
              /\ defs[j].v = GetOwn(src, exp[j]).v
              /\ defs[j].r = "true" =>
                    /\ HasOwn(h2[t], exp[j])
                    /\ GetOwn(h2[t], exp[j]) = Prop(GetOwn(src, exp[j]).v, TRUE, TRUE, TRUE)
              /\ defs[j].r # "true" => SameOwn(h[t], h2[t], exp[j])
        /\ \A k \in (AllKeys(h[t]) \cup AllKeys(h2[t])) \ Range(exp) : SameOwn(h[t], h2[t], k)
        /\ \A o \in DOMAIN h \ {t} : h2[o] = h[o]

\* Every definition the call attempted took effect.
AllDefined(lg) == \A j \in DOMAIN lg : lg[j].e = "define" => lg[j].r = "true"

\* C5 as claimed: every call with an object target that does not raise
\* leaves on the target exactly the enumerable, non-internal, non-excluded
\* own properties of the source, writable, enumerable and configurable, in
\* enumeration order, and returns the target.
C5_AsClaimed ==
    [][ (CopyCalled(call') /\ ret' # EXCEPTION) =>
            CopiedExactly(heap, heap', call', log', ret') ]_vars

\* What does hold of every call with an object target that does not raise:
\* it attempts one definition for each enumerable, non-internal,
\* non-excluded own property of the source, in enumeration order, with the
\* value read from the source, and returns the target; a definition the
\* target refuses is skipped without an error.
CopyExactWhereAccepted ==
    [][ (CopyCalled(call') /\ ret' # EXCEPTION) =>
            /\ CopiedWhereAccepted(heap, heap', call', log', ret')
            /\ AllDefined(log') => CopiedExactly(heap, heap', call', log', ret') ]_vars

\* A primitive call of the handler raised.
CopyRaised(lg) == \E j \in DOMAIN lg : lg[j].r = "exc"

\* C6: a call that raises stops at the primitive call that raised: that call
\* is the last one it made, and no key enumerated after the key it was made
\* for is looked up, read or defined; the definitions attempted before it
\* are those of the first keys to copy, in order, and the ones that took
\* effect remain on the target with the source's values; the target is
\* otherwise as before; the result is EXCEPTION with the exception pending.
C6_CopyStopsAtFailure ==
    [][ (CopyCalled(call') /\ (ret' = EXCEPTION \/ CopyRaised(log'))) =>
          LET t == call'.args[1].n
              src == CopySource(heap, call'.args)
              exp == ExpectedKeys(heap, call'.args)
              n == Len(log')
              defs == DefinesOn(SubSeq(log', 1, n - 1), t)
              done == {defs[j].k : j \in {i \in DOMAIN defs : defs[i].r = "true"}}
          IN  /\ ret' = EXCEPTION
              /\ thrown' # "none"
              /\ n >= 1
              /\ log'[n].r = "exc"
              /\ \A j \in 1..(n - 1) : log'[j].r # "exc"
              /\ Len(defs) <= Len(exp)
              /\ KeysOf(defs) = SubSeq(exp, 1, Len(defs))
              /\ log'[n].e \in {"read", "define"} =>
                    Len(defs) < Len(exp) /\ log'[n].k = exp[Len(defs) + 1]
              /\ log'[n].k \in AllKeys(src)
              /\ \A j \in 1..(n - 1) :
                    KeyPos(src, log'[j].k) <= KeyPos(src, log'[n].k)
              /\ \A k \in done :
                    GetOwn(heap'[t], k) = Prop(GetOwn(src, k).v, TRUE, TRUE, TRUE)
              /\ \A k \in (AllKeys(heap[t]) \cup AllKeys(heap'[t])) \ done :
                    SameOwn(heap[t], heap'[t], k)
      ]_vars

\* A getter of the source raised after one property was copied and before
\* another enumerable property was reached.
C6_Witness ==
    /\ CopyCalled(call)
    /\ ret = EXCEPTION
    /\ Len(log) >= 3
    /\ log[Len(log)].e = "read" /\ log[Len(log)].r = "exc"
    /\ \E j \in DOMAIN log : log[j].e = "define" /\ log[j].r = "true"
    /\ Len(DefinesOn(log, call.args[1].n)) + 1 < Len(ExpectedKeys(heap, call.args))

-----------------------------------------------------------------------------
(* Claims about copyRestArgs, checked under SpecRest.  The call leaves the  *)
(* frames as they were, and the heap was empty before it.                   *)

\* The last call was copyRestArgs with a caller frame present.
RestCalled == call.op = "copyRestArgs" /\ frames # <<>>

Max(a, b) == IF a >= b THEN a ELSE b

\* The call returned a new array holding the caller's arguments
\* start, start + 1, ..., n of them, and nothing else.
RestArrayIs(start, n) ==
    /\ isObject(ret)
    /\ ret.n = Len(heap)
    /\ heap[ret.n].cls = "Array"
    /\ heap[ret.n].len = n
    /\ DOMAIN heap[ret.n].idx = 0..(n - 1)
    /\ \A i \in 0..(n - 1) :
          start + i + 1 \in DOMAIN frames[1] /\ heap[ret.n].idx[i].v = frames[1][start + i + 1]

-----------------------------------------------------------------------------
(* Claims about arraySpread, checked under SpecSpread.                      *)

\* arraySpread was called and opened the iterator of its source.
SpreadEntered ==
    /\ call.op = "arraySpread"
    /\ log # <<>>
    /\ log[1].e = "getIterator" /\ log[1].r = "true"

\* The values read from the iterator so far, in order.
SpreadValues == SelectSeq(log, LAMBDA ev : ev.e = "value" /\ ev.r = "true")

\* The writes to the target so far, in order.
SpreadPuts == SelectSeq(log, LAMBDA ev : ev.e = "put")

\* The target holds value v at index i.
TargetHolds(i, v) ==
    /\ HasOwn(heap[call.args[1].n], Idx(i))
    /\ GetOwn(heap[call.args[1].n], Idx(i)).v = v

\* The call has returned EXCEPTION because an iterator step, or the read of
\* its value, raised.
SpreadStepFailed ==
    /\ SpreadEntered
    /\ sp.pc = "idle"
    /\ log[Len(log)].e \in {"step", "value"}
    /\ log[Len(log)].r = "exc"

\* C8 as claimed: when the k-th iterator step, or the read of its value,
\* raises, the call returns EXCEPTION with the error pending, the target
\* holds the first k-1 values at the indices from nextIndex on, and there
\* is one write for each of them and none for a later element.
C8_SpreadStopsAtFailure ==
    SpreadStepFailed =>
        /\ ret = EXCEPTION
        /\ thrown # "none"
        /\ Len(SpreadPuts) = Len(SpreadValues)
        /\ \A j \in DOMAIN SpreadValues :
              /\ SpreadPuts[j].k = Idx(call.args[3].n + j - 1)
              /\ SpreadPuts[j].v = SpreadValues[j].v
              /\ TargetHolds(call.args[3].n + j - 1, SpreadValues[j].v)

\* The events after getIterator come in rounds of step, value, put, and
\* round j writes the j-th element of the source at index nextIndex + j.
SpreadRounds ==
    \A p \in 2..Len(log) :
        LET j == (p - 2) \div 3 IN
        /\ log[p].e = <<"step", "value", "put">>[((p - 2) % 3) + 1]
        /\ p < Len(log) => log[p].r # "exc" /\ log[p].r # "done"
        /\ log[p].e = "put" =>
              /\ log[p].o = call.args[1].n
              /\ log[p].k = Idx(call.args[3].n + j)
              /\ log[p].v = GetOwn(heap[call.args[2].n], Idx(j)).v
              /\ log[p - 1].v = log[p].v /\ log[p - 2].v = log[p].v

\* Where the activation stands agrees with the events so far: a step is
\* requested only after the write of the round before.
SpreadPosition ==
    /\ sp.pc = "step" => (Len(log) - 1) % 3 = 0
    /\ sp.pc = "value" => (Len(log) - 1) % 3 = 1
    /\ sp.pc = "put" => (Len(log) - 1) % 3 = 2
    /\ sp.pc # "idle" => sp.nextIndex = call.args[3].n + Len(SpreadPuts)

\* Every write so far has left its value in the target.
SpreadWritten ==
    \A j \in DOMAIN SpreadPuts : TargetHolds(call.args[3].n + j - 1, SpreadPuts[j].v)

\* A step of the activation changes the heap at most in the target's element
\* at nextIndex.
SpreadWritesAtNextIndex ==
    heap' # heap =>
        /\ sp.pc = "put"
        /\ \A o \in DOMAIN heap : o # sp.target => heap'[o] = heap[o]
        /\ \A i \in (DOMAIN heap[sp.target].idx \cup DOMAIN heap'[sp.target].idx)
                    \ {sp.nextIndex} :
              SameOwn(heap[sp.target], heap'[sp.target], Idx(i))

\* The call has returned: nextIndex + m when nothing raised.
SpreadEnded ==
    /\ SpreadEntered
    /\ sp.pc = "idle"
    /\ ret = EXCEPTION \/ ret = Num(call.args[3].n + heap[call.args[2].n].len)
    /\ ret = EXCEPTION <=> CopyRaised(log)

\* What does hold of arraySpread: steps and writes alternate in rounds, a
\* write touches only the element at nextIndex, and the call returns.
SpreadAlternatesAttempts ==
    /\ [](SpreadEntered => SpreadRounds /\ SpreadPosition)
    /\ [][SpreadWritesAtNextIndex]_vars
    /\ (sp.pc # "idle") ~> SpreadEnded

\* C9 as claimed: steps and writes alternate, the j-th value is in the
\* target at index nextIndex + j before the next step is requested, the
\* call returns nextIndex + m when nothing raises, and no other element of
\* the target is written.
C9_SpreadAlternates ==
    /\ [](SpreadEntered => SpreadRounds /\ SpreadPosition /\ SpreadWritten)
    /\ [][SpreadWritesAtNextIndex]_vars
    /\ (sp.pc # "idle") ~> SpreadEnded

-----------------------------------------------------------------------------
(* Claims about apply, checked under SpecApply.                             *)

\* The last call was apply with a callable fn and an array argArray.
ApplyCalled ==
    /\ call.op = "apply"
    /\ isObject(call.args[1]) /\ heap[call.args[1].n].cls = "Function"
    /\ isObject(call.args[2]) /\ heap[call.args[2].n].cls = "Array"

\* The invocations of fn the call made.
ApplyInvocations == SelectSeq(log, LAMBDA ev : ev.e \in {"call", "construct"})

\* The frames the call built, and the arguments it stored in them.
ApplyFrames == SelectSeq(log, LAMBDA ev : ev.e = "frame")
ApplyStored == SelectSeq(log, LAMBDA ev : ev.e = "arg")

\* Creating this raised: the call made no frame and no invocation.
ApplyThisFailed == log # <<>> /\ log[1].e = "createThis" /\ log[1].r = "exc"

\* C10: for a callable fn and an array argArray of length len, apply with
\* exactly two arguments creates a new object as this and invokes fn as a
\* constructor, returning the constructed value (the object fn returns, or
\* else the new object); with a third argument, whatever its value, it
\* invokes fn by an ordinary call with this equal to that argument and
\* returns what fn returns.  Either way fn is invoked exactly once, as the
\* call's last step, in a frame of exactly len arguments, argument i being
\* element i of argArray.  (When creating this raises, apply returns
\* EXCEPTION and fn is not invoked; when fn raises, apply returns EXCEPTION.)
C10_ApplyDispatch ==
    ApplyCalled =>
        LET fn == call.args[1].n
            argArray == heap[call.args[2].n]
            n == Len(log)
        IN  IF ApplyThisFailed THEN
                ret = EXCEPTION /\ ApplyInvocations = <<>> /\ Len(call.args) = 2
            ELSE
            /\ Len(ApplyInvocations) = 1
            /\ log[n].e \in {"call", "construct"} /\ log[n].o = fn
            /\ ret = log[n].v
            /\ Len(ApplyFrames) = 1
            /\ ApplyFrames[1].o = fn /\ ApplyFrames[1].k = Idx(argArray.len)
            /\ Len(ApplyStored) = argArray.len
            /\ \A i \in 0..(argArray.len - 1) :
                  /\ ApplyStored[i + 1].k = Idx(i)
                  /\ ApplyStored[i + 1].v = argArray.idx[i].v
                  /\ log[n - argArray.len + i].e = "arg"
            /\ IF Len(call.args) = 2 THEN
                  /\ log[n].e = "construct"
                  /\ log[1].e = "createThis" /\ log[1].o = fn
                  /\ log[1].v = Obj(Len(heap)) /\ Len(heap) = 5
                  /\ heap[Len(heap)] = NewObject("Object")
                  /\ ApplyFrames[1].v = log[1].v /\ ApplyFrames[1].r = "construct"
                  /\ ret = EXCEPTION \/ isObject(ret)
                  /\ (thrown = "none" /\ ret # log[1].v) => ret.n \in 1..4
               ELSE
                  /\ log[n].e = "call"
                  /\ \A j \in DOMAIN log : log[j].e # "createThis"
                  /\ Len(heap) = 4
                  /\ ApplyFrames[1].v = call.args[3] /\ ApplyFrames[1].r = "call"

\* A call passed undefined as third argument: fn was called, not
\* constructed, with this undefined and the two elements of argArray.
C10_Witness ==
    /\ ApplyCalled
    /\ Len(call.args) = 3 /\ call.args[3] = Undefined
    /\ Len(ApplyStored) = 2
    /\ log[Len(log)].e = "call"
    /\ ret = Num(8)

-----------------------------------------------------------------------------
(* Claims about generatorSetDelegated, checked under SpecGen.               *)

\* C11: a call of generatorSetDelegated whose immediate caller frame runs a
\* generator sets that generator's flag (so a flag that was set stays set),
\* leaves every other flag as it was and returns undefined; a call whose
\* immediate caller runs anything else raises a TypeError, returns
\* EXCEPTION, and leaves every flag, the heap, the cache and the frames as
\* they were.
C11_SetDelegated ==
    [][ call'.op = "generatorSetDelegated" =>
          LET g == callees[1] IN
          IF g \in Generators(heap) THEN
              /\ delegated'[g]
              /\ \A o \in DOMAIN delegated : o # g => delegated'[o] = delegated[o]
              /\ ret' = Undefined /\ thrown' = "none"
              /\ UNCHANGED <<heap, cache, callees, frames>>
          ELSE
              /\ ret' = EXCEPTION /\ thrown' = "TypeError"
              /\ UNCHANGED <<delegated, heap, cache, callees, frames, returned, sp>>
      ]_vars

\* A generator called from the other generator has set its flag, and the
\* caller's flag is still clear.
C11_Witness ==
    /\ call.op = "generatorSetDelegated"
    /\ ret = Undefined
    /\ callees = <<2, 1>>
    /\ delegated = <<FALSE, TRUE>>

-----------------------------------------------------------------------------
(* Claims about exportAll, checked under SpecExport.  A step of SpecExport  *)
(* is one call: the unprimed heap is the heap before the call.              *)

\* The call of the step is exportAll with two objects.
ExportCalled(c) ==
    c.op = "exportAll" /\ Len(c.args) = 2 /\ isObject(c.args[1]) /\ isObject(c.args[2])

\* The keys the call is to export, in order: the named properties of the
\* source that are enumerable and are not the default export.
ExportedKeys(src) ==
    SelectSeq([j \in 1..Len(src.named) |-> Name(src.named[j].k)],
              LAMBDA k : GetOwn(src, k).e /\ k.n # defaultExport)

\* What a call that defines every key leaves: each key to export is defined
\* on exports once, in order, with the source's value and configurable
\* false; nothing else of exports changes, no other object changes, and the
\* call returns undefined.
ExportedExactly(h, h2, c, lg, r) ==
    LET t == c.args[1].n
        src == h[c.args[2].n]
        exp == ExportedKeys(src)
    IN  /\ r = Undefined
        /\ KeysOf(DefinesOn(lg, t)) = exp
        /\ \A j \in DOMAIN exp :
              /\ HasOwn(h2[t], exp[j])
              /\ GetOwn(h2[t], exp[j]).v = GetOwn(src, exp[j]).v
              /\ ~GetOwn(h2[t], exp[j]).c
        /\ \A k \in (AllKeys(h[t]) \cup AllKeys(h2[t])) \ Range(exp) : SameOwn(h[t], h2[t], k)
        /\ \A o \in DOMAIN h \ {t} : h2[o] = h[o]

\* C12 as claimed: every call with two objects that does not raise leaves on
\* exports exactly the enumerable named properties of source other than the
\* default export, with source's values and configurable false, defined in
\* source's definition order, and returns undefined.
C12_AsClaimed ==
    [][ (ExportCalled(call') /\ ret' # EXCEPTION) =>
            ExportedExactly(heap, heap', call', log', ret') ]_vars

\* What does hold of every call with two objects that does not raise: one
\* definition is attempted for each key to export, in order, with the value
\* read from the source, and undefined is returned; when exports accepted
\* every definition, the properties are on exports as claimed.
ExportExactWhereAccepted ==
    [][ (ExportCalled(call') /\ ret' # EXCEPTION) =>
          LET t == call'.args[1].n
              src == heap[call'.args[2].n]
              exp == ExportedKeys(src)
              defs == DefinesOn(log', t)
          IN  /\ ret' = Undefined
              /\ KeysOf(defs) = exp
              /\ \A j \in DOMAIN defs : defs[j].v = GetOwn(src, exp[j]).v
              /\ AllDefined(log') => ExportedExactly(heap, heap', call', log', ret') ]_vars

-----------------------------------------------------------------------------
(* Claims about silentSetPrototypeOf, checked under SpecProto.  A step of   *)
(* SpecProto is one call: the unprimed heap is the heap before the call.    *)

\* The arguments ask for a prototype change: an object, and null or an object.
ProtoChangeAsked(args) ==
    isObject(getArg(args, 0)) /\ (isNull(getArg(args, 1)) \/ isObject(getArg(args, 1)))

\* C13: every call of silentSetPrototypeOf returns undefined; when obj is not
\* an object, or parent is neither null nor an object, the heap (and so
\* every prototype) is as before and no change was attempted; otherwise no
\* exception is pending when the call returns, whether setParent succeeded
\* or raised, and nothing but the parent of obj can have changed: it is the
\* requested one after a success and the old one after a failure.
C13_SilentSetPrototypeOf ==
    [][ call'.op = "silentSetPrototypeOf" =>
          /\ ret' = Undefined
          /\ ~ProtoChangeAsked(call'.args) => heap' = heap /\ log' = <<>>
          /\ ProtoChangeAsked(call'.args) =>
                LET o == call'.args[1].n
                    p == IF isNull(call'.args[2]) THEN 0 ELSE call'.args[2].n
                IN  /\ thrown' = "none"
                    /\ Len(log') = 1 /\ log'[1].e = "setParent"
                    /\ heap' = [heap EXCEPT ![o].parent =
                                   IF log'[1].r = "true" THEN p ELSE heap[o].parent]
      ]_vars

\* setParent raised (the object is not extensible, or the parent would
\* close a cycle), and the call returned undefined with nothing pending.
C13_Witness ==
    /\ call.op = "silentSetPrototypeOf"
    /\ ProtoChangeAsked(call.args)
    /\ Len(log) = 1 /\ log[1].e = "setParent" /\ log[1].r = "exc"
    /\ heap[call.args[1].n].ext
    /\ ret = Undefined
    /\ thrown = "none"

-----------------------------------------------------------------------------
(* Claims about every operation; the getTemplateObject cases are checked    *)
(* under SpecTemplate.                                                      *)

\* A primitive call of the last operation returned EXCEPTION.
MarkerSeen == \E j \in DOMAIN log : log[j].r = "exc"

\* C14 as claimed: in every operation but silentSetPrototypeOf, the
\* primitive call that returns EXCEPTION is the last one the operation
\* makes (nothing is defined, written or cached after it), and the
\* operation returns EXCEPTION with the error still pending.
C14_StopsAtMarker ==
    (call.op \notin {"none", "silentSetPrototypeOf"} /\ MarkerSeen) =>
        /\ ret = EXCEPTION
        /\ thrown # "none"
        /\ log[Len(log)].r = "exc"
        /\ \A j \in 1..(Len(log) - 1) : log[j].r # "exc"

-----------------------------------------------------------------------------
(* Claims about argument validation, checked under SpecValidate.  The       *)
(* first step of a behaviour is the call: the unprimed heap is the heap     *)
(* before it.                                                               *)

\* Is v an object of class cls on heap h?
IsOfClass(h, v, cls) == isObject(v) /\ h[v.n].cls = cls

\* The call of the step fails a local validation.
ValidationFails(h, c) ==
    \/ c.op = "arraySpread" /\ ~IsOfClass(h, getArg(c.args, 0), "Array")
    \/ c.op = "apply" /\ \/ ~IsOfClass(h, getArg(c.args, 0), "Function")
                         \/ ~IsOfClass(h, getArg(c.args, 1), "Array")
    \/ c.op = "exportAll" /\ \/ ~isObject(getArg(c.args, 0))
                             \/ ~isObject(getArg(c.args, 1))

\* C15: a call of arraySpread with a non-array target, of apply with a
\* non-callable fn or a non-array argArray, or of exportAll with a
\* non-object exports or source raises a TypeError and returns EXCEPTION
\* having made no primitive call at all (no iterator opened, no write, no
\* this object created, no frame pushed, fn not invoked, nothing defined):
\* the heap, the frames and the cache are as before, and no spread loop is
\* left running.
C15_ValidationFirst ==
    [][ (call = NoCall /\ call' # NoCall /\ ValidationFails(heap, call')) =>
          /\ ret' = EXCEPTION
          /\ thrown' = "TypeError"
          /\ log' = <<>>
          /\ heap' = heap
          /\ sp' = NoSpread
          /\ UNCHANGED <<frames, cache, delegated>>
      ]_vars

\* apply was called with a callable fn and an object that is not an array,
\* and raised the TypeError without a primitive call.
C15_Witness ==
    /\ call.op = "apply"
    /\ IsOfClass(heap, call.args[1], "Function")
    /\ isObject(call.args[2]) /\ heap[call.args[2].n].cls = "Object"
    /\ ret = EXCEPTION /\ thrown = "TypeError"
    /\ log = <<>>

\* The other two cases are reached as well.
ValidationSpreadReached ==
    /\ call.op = "arraySpread"
    /\ isObject(call.args[1]) /\ heap[call.args[1].n].cls # "Array"
    /\ ret = EXCEPTION /\ log = <<>>

ValidationExportReached ==
    /\ call.op = "exportAll"
    /\ isObject(call.args[1]) /\ ~isObject(getArg(call.args, 1))
    /\ ret = EXCEPTION /\ log = <<>>

-----------------------------------------------------------------------------
(* Claims about ensureObject and throwTypeError, checked under SpecEnsure.  *)

\* The call raised one TypeError, made from message m.
RaisedTypeErrorWith(lg, th, r, m) ==
    /\ r = EXCEPTION
    /\ th = "TypeError"
    /\ Len(lg) = 1 /\ lg[1].e = "raiseTypeError" /\ lg[1].v = m

\* C16: ensureObject(value, message) returns undefined with nothing raised
\* when value is an object, and otherwise raises a TypeError made from its
\* second argument (undefined when there is none); throwTypeError(message)
\* raises a TypeError made from its first argument whatever that is, and
\* never returns a normal value; both leave the heap as it was.
C16_EnsureAndThrow ==
    [][ /\ call'.op = "ensureObject" =>
              /\ heap' = heap
              /\ IF isObject(call'.args[1])
                 THEN ret' = Undefined /\ thrown' = "none" /\ log' = <<>>
                 ELSE RaisedTypeErrorWith(log', thrown', ret', getArg(call'.args, 1))
        /\ call'.op = "throwTypeError" =>
              /\ heap' = heap
              /\ RaisedTypeErrorWith(log', thrown', ret', getArg(call'.args, 0))
      ]_vars

\* ensureObject was given a string for an object and raised the TypeError
\* with the message it was passed.
C16_Witness ==
    /\ call.op = "ensureObject"
    /\ call.args = <<Str("a"), Str("b")>>
    /\ RaisedTypeErrorWith(log, thrown, ret, Str("b"))

-----------------------------------------------------------------------------
(* More claims about getTemplateObject, checked under SpecTemplate.  The    *)
(* unprimed variables of a step are the state before the call.              *)

\* Fewer than three arguments, an id that is not a number, or a dup that is
\* not a boolean.
BadlyTyped(args) ==
    Len(args) < 3 \/ ~isNumber(getArg(args, 0)) \/ ~isBool(getArg(args, 1))

\* dup = false with an odd number of arguments after the first two.
OddTail(args) == getArg(args, 1) = Bool(FALSE) /\ (Len(args) - 2) % 2 = 1

\* The step created no array, defined no property and left the heap and the
\* cache as they were.
NothingBuilt ==
    /\ heap' = heap
    /\ cache' = cache
    /\ \A j \in DOMAIN log' : log'[j].e = "find"

\* The cached object of the call's (module, id) before the call, 0 when
\* there is none or the caller is native code.
CachedFor(c) == IF c.module = 0 THEN 0 ELSE cache[c.module][c.args[1].n]

\* C17 as claimed: every call with malformed arguments raises a TypeError
\* before any mutation.
C17_AsClaimed ==
    [][ (call'.op = "getTemplateObject"
            /\ (BadlyTyped(call'.args) \/ OddTail(call'.args))) =>
          /\ ret' = EXCEPTION
          /\ thrown' = "TypeError"
          /\ NothingBuilt ]_vars

\* C17 amended: a call with fewer than three arguments, a non-number id or a
\* non-boolean dup raises a TypeError before any mutation; a call with
\* dup = false and an odd number of arguments after the first two does so
\* when the cache holds no object for its (module, id), and otherwise
\* returns the cached object, also without any mutation.
C17_MalformedArgs ==
    [][ call'.op = "getTemplateObject" =>
          /\ BadlyTyped(call'.args) =>
                ret' = EXCEPTION /\ thrown' = "TypeError" /\ NothingBuilt
          /\ (~BadlyTyped(call'.args) /\ OddTail(call'.args)) =>
                /\ NothingBuilt
                /\ IF CachedFor(call') # 0
                   THEN ret' = Obj(CachedFor(call')) /\ thrown' = "none"
                   ELSE ret' = EXCEPTION /\ thrown' = "TypeError"
      ]_vars

\* A call with dup = false and one string missed the cache and raised.
C17_Witness ==
    /\ TemplateMiss
    /\ call.args = <<Num(0), Bool(FALSE), Str("a")>>
    /\ ret = EXCEPTION /\ thrown = "TypeError"
    /\ Len(log) = 1

\* The number of strings the claim gives a well-formed call.
ClaimedCount(args) ==
    IF getArg(args, 1) = Bool(TRUE) THEN Len(args) - 2 ELSE (Len(args) - 2) \div 2

\* Array o holds exactly the values vals(0), ..., vals(n - 1).
ArrayHolds(o, n, vals(_)) ==
    /\ o.len = n
    /\ DOMAIN o.idx = 0..(n - 1)
    /\ \A i \in 0..(n - 1) : o.idx[i].v = vals(i)

\* The object the last call returned and its raw array are as the claim
\* says: both of length n, raw[i] is argument 2 + i, and template[i] is
\* argument 2 + i when dup and argument 2 + n + i when not.
TemplateContents ==
    LET a == call.args
        n == ClaimedCount(a)
        t == heap[ret.n]
        cooked(i) == IF getArg(a, 1) = Bool(TRUE) THEN getArg(a, 2 + i)
                     ELSE getArg(a, 2 + n + i)
        rawArg(i) == getArg(a, 2 + i)
    IN  /\ ArrayHolds(t, n, cooked)
        /\ "raw" \in NamedKeys(t)
        /\ isObject(NamedProp(t, "raw").v)
        /\ ArrayHolds(heap[NamedProp(t, "raw").v.n], n, rawArg)

\* C18 as claimed: a call with well-formed arguments that misses the cache
\* and returns an object returns a template object and a raw array of the
\* claimed length and contents.
C18_AsClaimed ==
    (TemplateMiss /\ isObject(ret)) => TemplateContents

\* What does hold: the contents are as claimed whenever every element
\* definition of the call took effect.
TemplateContentsWhereDefined ==
    (TemplateMiss /\ isObject(ret) /\ AllDefined(log)) => TemplateContents

\* C19 as claimed: when an operation has returned, its result is EXCEPTION
\* exactly when an error is pending: EXCEPTION is never returned with no
\* error installed, and a normal value is never returned while an error
\* raised during the call is pending.
C19_MarkerIffPending ==
    (call.op \notin {"none", "script", "enter", "leave"} /\ ret # NoReturn) =>
        (ret = EXCEPTION <=> thrown # "none")

-----------------------------------------------------------------------------
(* More claims about copyDataProperties, checked under SpecCopy.            *)

\* C20: a call of copyDataProperties with a target that is not an object
\* returns undefined, and a call with an object target and a null or
\* undefined source returns the target; in both cases the call makes no
\* primitive call (the source is not read, no getter runs, nothing is
\* defined), raises nothing, and leaves the heap as it was.
C20_CopyNoOps ==
    [][ call'.op = "copyDataProperties" =>
          LET target == getArg(call'.args, 0)
              source == getArg(call'.args, 1)
          IN  /\ ~isObject(target) =>
                    ret' = Undefined /\ log' = <<>> /\ heap' = heap /\ thrown' = "none"
              /\ (isObject(target) /\ (isNull(source) \/ isUndefined(source))) =>
                    ret' = target /\ log' = <<>> /\ heap' = heap /\ thrown' = "none"
      ]_vars

\* A call with a number for the target and a source whose first named
\* property is a getter that raises returned undefined without running it.
C20_Witness ==
    /\ call.op = "copyDataProperties"
    /\ ~isObject(call.args[1])
    /\ isObject(call.args[2])
    /\ heap[call.args[2].n].named # <<>>
    /\ heap[call.args[2].n].named[1].p.acc = "throws"
    /\ ret = Undefined
    /\ log = <<>>

-----------------------------------------------------------------------------
(* Claims about the state the operations share, checked under SpecShared.   *)

\* C21: in any sequence of calls, a step that changes a template cache is a
\* call of getTemplateObject from the code of a module, and it changes the
\* cache of that module only; a step that changes a delegation flag is a
\* call of generatorSetDelegated; no step of another operation changes
\* either.
C21_OwnedWrites ==
    [][ /\ cache' # cache =>
              /\ call'.op = "getTemplateObject"
              /\ call'.module \in SharedModules
              /\ \A m \in SharedModules \ {call'.module} : cache'[m] = cache[m]
              /\ delegated' = delegated
        /\ delegated' # delegated =>
              /\ call'.op = "generatorSetDelegated"
              /\ cache' = cache
      ]_vars

\* Two modules have cached their own template objects, the generator is
\* delegated, and a later call of another operation has changed the heap
\* and left both as they were.
C21_Witness ==
    /\ cache[1][0] # 0
    /\ cache[2][0] # 0
    /\ cache[1][0] # cache[2][0]
    /\ delegated[1]
    /\ call.op = "copyDataProperties"
    /\ ret = Obj(2)
    /\ "a" \in NamedKeys(heap[2])

-----------------------------------------------------------------------------
(* Claims about createHermesBuiltins, checked under SpecBuiltins.  The      *)
(* unprimed table of a step is the table before the run.                    *)

\* The names and the counts the functions are declared with.
DeclaredCount ==
    [silentSetPrototypeOf |-> 2, getTemplateObject |-> 0, ensureObject |-> 2,
     throwTypeError |-> 1, generatorSetDelegated |-> 1, copyDataProperties |-> 3,
     copyRestArgs |-> 1, arraySpread |-> 2, apply |-> 2, exportAll |-> 0,
     exponentiationOperator |-> 0, requireFast |-> 1]

\* The writes of the run to entry i.
WritesTo(lg, i) == SelectSeq(lg, LAMBDA ev : ev.e = "defineInternMethod" /\ ev.o = i)

\* C22: a run of createHermesBuiltins on a table whose twelve entries of the
\* layer are empty ends without a failed assertion and leaves each of the
\* twelve bound to a non-null function that carries the name of its index
\* and the count it is declared with; each of the twelve entries is written
\* exactly once, twelve writes in all, and every other entry is as before.
C22_RegistersEachOnce ==
    [][ (call'.op = "createHermesBuiltins"
            /\ \A i \in HermesBuiltinIndices : builtins[i] = NullFunction) =>
          /\ ~aborted'
          /\ Cardinality(HermesBuiltinIndices) = 12
          /\ DOMAIN DeclaredCount = {HermesBuiltinMethods[j] : j \in DOMAIN HermesBuiltinMethods}
          /\ \A b \in DOMAIN DeclaredCount :
                /\ builtins'[BuiltinIndex(b)] # NullFunction
                /\ builtins'[BuiltinIndex(b)].func # ""
                /\ builtins'[BuiltinIndex(b)].name = b
                /\ builtins'[BuiltinIndex(b)].count = DeclaredCount[b]
                /\ Len(WritesTo(log', BuiltinIndex(b))) = 1
          /\ Len(log') = 12
          /\ \A i \in DOMAIN builtins \ HermesBuiltinIndices : builtins'[i] = builtins[i]
          /\ DOMAIN builtins' = DOMAIN builtins
      ]_vars

\* The run has filled the twelve entries of a table in which another
\* library held an entry and left one empty.
C22_Witness ==
    /\ call.op = "createHermesBuiltins"
    /\ ~aborted
    /\ Len(log) = 12
    /\ builtins[1] = OtherFunction
    /\ builtins[2] = NullFunction
    /\ builtins[BuiltinIndex("exportAll")].func = "hermesBuiltinExportAll"
    /\ builtins[BuiltinIndex("requireFast")].count = 1

====
